---- MODULE Spec2Model ----
(***************************************************************************)
(* Model of the worker channel of rust-tunnel (src/rust-tunnel/src/        *)
(* node_worker.rs): callers allocate a correlation id and enqueue a        *)
(* request on an unbounded channel; one writer thread inserts the          *)
(* completion handle in the pending table and writes the record to the     *)
(* worker's stdin; one reader thread reads the worker's stdout line by     *)
(* line and resolves the pending entry whose id the response carries.      *)
(***************************************************************************)
EXTENDS Integers, Sequences, FiniteSets, TLC

\* ---------------------------------------------------------------- bounds
\* number of execute_task/emit_event calls made in one behaviour
MaxReq == 2
\* number of lines read from the worker's stdout in one behaviour
MaxLines == 2

Callers == 1..MaxReq
\* ids a response line may carry: the ids that can be issued; in a behaviour
\* that makes fewer than MaxReq calls the largest ones are never issued
ResponseIds == 1..MaxReq

VARIABLES
    request_id,         \* NodeWorker.request_id (AtomicU64)
    dropped,            \* TRUE once the NodeWorker (and its stdin_tx) is dropped
    cpc,                \* position of each caller
    cid,                \* id held by the caller's request (0: none yet)
    chan,               \* state of the caller's oneshot channel
    cres,               \* what the call returned
    queue,              \* messages in the mpsc channel stdin_tx -> rx
    wpc,                \* position of the writer thread
    wcur,               \* (request, response_tx) the writer is working on
    pending_responses,  \* the HashMap<u64, oneshot::Sender>
    stdin,              \* the worker's stdin: chunks written, the last one, pipe full
    stdinBroken,        \* the worker no longer reads its stdin: writes fail
    rpc,                \* position of the reader thread
    stdoutClosed,       \* the worker closed its stdout
    workerExited,       \* the worker process has exited
    lineCount,          \* lines read from the worker's stdout so far
    hist                \* observations used to state the properties

\* the HTTP dispatch layer and the registry of in-process handlers
VARIABLES
    config,             \* the TunnelConfig the router was built with
    tasks,              \* TaskRegistry.tasks: task id -> handler
    events,             \* TaskRegistry.events: event id -> handler
    reg,                \* the registrations made so far, as observed
    rcall,              \* the call made on the registry directly, if any
    http,               \* the HTTP request served, if any, with what it caused
    flight              \* the call suspended in send_request, if any

\* the registry's lock, as concurrent calls on one TaskRegistry see it
VARIABLES
    rw,                 \* the RwLock around TaskRegistry.tasks
    rmap,               \* the HashMap under it: task id -> handler
    tk,                 \* the concurrent callers of the registry
    rhist               \* observations used to state the properties

\* the native addon: the JavaScript thread and the requests of its server
VARIABLES
    nlock,              \* the RwLocks around TunnelServer.tasks and .events
    nmap,               \* the ids of each namespace that hold a JavaScript handler
    js,                 \* the JavaScript thread
    nreq                \* the HTTP requests of the addon's server

dvars == <<config, tasks, events, reg, rcall, http, flight>>
lvars == <<rw, rmap, tk, rhist>>
nvars == <<nlock, nmap, js, nreq>>

vars == <<request_id, dropped, cpc, cid, chan, cres, queue, wpc, wcur,
          pending_responses, stdin, stdinBroken, rpc, stdoutClosed,
          workerExited, lineCount, hist, config, tasks, events, reg, rcall,
          http, flight, rw, rmap, tk, rhist, nlock, nmap, js, nreq>>

NoReq == [id |-> 0, tx |-> 0]

\* the stream written to the worker's stdin only grows: the model keeps the
\* number of chunks written so far and the last of them (part "json": the
\* encoded request id, part "nl": the newline that ends its record), and
\* whether the pipe is full (the worker, alive, is not reading: write_all
\* blocks): [len, id, part, full], nothing written being
\* [len |-> 0, id |-> 0, part |-> "none", full |-> FALSE]

\* ------------------------------------------------------------ error values
\* a call's outcome: st is "none" (not returned), "resp" (made of the worker's
\* response id, read as line n) or "err" (TunnelError::InternalError(msg)
\* raised by send_request)
ErrChannelClosed == [st |-> "err", msg |-> "Worker channel closed", id |-> 0, n |-> 0]
ErrResponseClosed ==
    [st |-> "err", msg |-> "Worker response channel closed", id |-> 0, n |-> 0]

\* ------------------------------------------------- the pending table (HashMap)
\* an entry is [id, tx]; tx names the caller whose receiver the sender feeds
PendingGet(p, id) == {e \in p : e.id = id}
PendingInsert(p, id, tx) == {e \in p : e.id # id} \cup {[id |-> id, tx |-> tx]}
Senders(p) == {e.tx : e \in p}

\* ------------------------------------------------------------------ lines
\* a line of the worker's stdout: n is its position in the stream; kind is
\* "resp" (decodes as a WorkerResponse), "garbage" (does not decode) or
\* "ioerr" (BufRead::lines yields Err for it)
NoLine == [n |-> 0, kind |-> "none", id |-> 0]
IsResponse(line) == line.kind = "resp"

\* ------------------------------------------------------- oneshot channels
\* st: "none" (not created), "open", "sent" (val holds the response),
\* "closed" (the Sender was dropped unused), "gone" (the Receiver was dropped,
\* and with it whatever had been sent)
\* dropping a Sender that was never used closes the channel
DropSenders(ch, S) ==
    [c \in Callers |-> IF c \in S /\ ch[c].st = "open"
                        THEN [st |-> "closed", val |-> NoLine] ELSE ch[c]]
\* Sender::send: fails (the value is handed back) when the Receiver is gone
SendOneshot(ch, c, v) ==
    [ch EXCEPT ![c] = IF @.st = "gone" THEN @ ELSE [st |-> "sent", val |-> v]]
\* send v through each sender of S
SendAll(ch, S, v) ==
    [c \in Callers |-> IF c \in S THEN SendOneshot(ch, c, v)[c] ELSE ch[c]]

\* the lines the worker may have written as its n-th line
Lines(n) ==
    [n : {n}, kind : {"resp"}, id : ResponseIds]
    \cup [n : {n}, kind : {"garbage", "ioerr"}, id : {0}]

\* ------------------------------------------------- dispatch layer: values
\* number of register_task/register_event calls made in one behaviour
MaxReg == 2
\* task inputs and event payloads are the JSON numbers 0..MaxInput
MaxInput == 1

\* operation ids (task ids and event ids are strings of the same kind)
Ids == {"a", "b"}
Inputs == 0..MaxInput
\* an absent JSON value: Option::None, and the unit result of an event
NoValue == -1
\* the JSON value null
JsonNull == -2
\* request bodies that are not the JSON object the route expects, sent as
\* application/json: Malformed is not JSON at all, Misshapen is JSON without
\* the key of the route ({} for instance)
Malformed == -3
Misshapen == -4
\* the object with input (or payload) 0, sent without the content type
\* application/json
Untyped == -5

\* TunnelError
Unauthorized == [variant |-> "Unauthorized", msg |-> ""]
Forbidden == [variant |-> "Forbidden", msg |-> ""]
NotFound == [variant |-> "NotFound", msg |-> ""]
MethodNotAllowed == [variant |-> "MethodNotAllowed", msg |-> ""]
InvalidJson(m) == [variant |-> "InvalidJson", msg |-> m]
InternalError(m) == [variant |-> "InternalError", msg |-> m]
NoError == [variant |-> "none", msg |-> ""]
\* TunnelResult<T>
Ok(v) == [ok |-> TRUE, val |-> v, err |-> NoError]
Err(e) == [ok |-> FALSE, val |-> NoValue, err |-> e]

\* the handlers a registry can hold (closures the embedding program
\* supplies): two that succeed and some that fail, each with its TunnelError
NoHandler == [fn |-> "none", err |-> NoError]
Fails(e) == [fn |-> "fail", err |-> e]
Handlers ==
    {[fn |-> "inc", err |-> NoError], [fn |-> "zero", err |-> NoError]}
    \cup {Fails(e) : e \in {Unauthorized, Forbidden, InternalError("boom")}}
\* TaskRegistry::new()
EmptyMap == [id \in Ids |-> NoHandler]
\* what was registered: n counts the registrations, task and event hold the
\* handler of the latest registration of each id, replaced the handlers that
\* a later registration of their id took the place of
NoReg == [n |-> 0, task |-> EmptyMap, event |-> EmptyMap, replaced |-> {}]
\* no WorkerError, and no call through the NodeWorker
NoWorkerError == [message |-> "", code |-> 0, codeName |-> ""]
NoAnswer ==
    [st |-> "none", written |-> FALSE, ok |-> FALSE, result |-> NoValue,
     error |-> NoWorkerError]

\* TunnelConfig: the fields the dispatch layer reads, and which of
\* create_tunnel_app ("local") and create_tunnel_app_ipc ("ipc") built the
\* router from it
DefaultConfig ==
    [app |-> "ipc", auth_token |-> "secret", allowed_tasks |-> {},
     allowed_events |-> {}, delegate_auth |-> TRUE]

\* no request served yet
NoRequest ==
    [route |-> "none", method |-> "none", id |-> "", token |-> "absent", body |-> NoValue]
\* an HTTP response: its status and, when the body is one of the protocol's
\* envelopes, the fields of the envelope
NoResponse ==
    [status |-> 0, envelope |-> FALSE, ok |-> FALSE, result |-> NoValue,
     allowList |-> [enabled |-> FALSE, tasks |-> {}, events |-> {}], code |-> 0, codeName |-> "", message |-> ""]
NoHttp == [req |-> NoRequest, resp |-> NoResponse, calls |-> <<>>, envelopes |-> <<>>]
\* no request or call is suspended. A suspended one is an HTTP request of the
\* IPC application ("http") or a call made on the NodeWorker directly
\* ("worker", req then holding the namespace, the id and the input); stage
\* tells where it is suspended: in authenticate ("auth"), in the read of
\* the body ("body") or in execute_task / emit_event ("call"); auth tells
\* whether the writer has put the Auth envelope on stdin, written whether
\* it has put the Task or Event envelope there
NoFlight ==
    [of |-> "none", req |-> NoRequest, stage |-> "none", auth |-> FALSE,
     written |-> FALSE]
\* ------------------------------------------------ worker_protocol: values
\* serde_json::Value, in the shapes null, object, array and empty
JsonValues == {"null", "{}", "[]", "{\"a\":1}", "[1]", "\"\""}
\* Option::None, and a key that a JSON object does not have
None == "none"
Absent == "absent"
\* a WorkerRequest or a WorkerResponse (dir tells which), the fields that
\* the variant does not have being None
NoEnvelope ==
    [dir |-> "none", type |-> None, id |-> 0, opId |-> None, value |-> None,
     context |-> None, ok |-> FALSE, result |-> None, error |-> NoWorkerError]
\* one line of JSON text, as the keys of its object
NoJson ==
    [type |-> Absent, id |-> 0, taskId |-> Absent, eventId |-> Absent,
     input |-> Absent, payload |-> Absent, context |-> Absent, ok |-> Absent,
     result |-> Absent, error |-> NoWorkerError]
\* an envelope on its way through the codec: stage is "value", "line"
\* (encoded) or "back" (decoded again)
NoCodec == [stage |-> "none", orig |-> NoEnvelope, line |-> NoJson, back |-> NoEnvelope]
\* no direct call on the registry, on the NodeWorker or on a TunnelError yet
NoCall ==
    [ns |-> "none", id |-> "", x |-> NoValue, res |-> Ok(NoValue),
     calls |-> <<>>, ans |-> NoAnswer, resp |-> NoResponse, codec |-> NoCodec]

\* ------------------------------------------------- tokio::sync::RwLock
\* concurrent calls made on one TaskRegistry in a behaviour
MaxTasks == 3
Tasks == 1..MaxTasks
\* the lock: the holders of a read guard, the holder of the write guard
\* (0: none) and the acquisitions that wait, oldest first
Unlocked == [readers |-> {}, writer |-> 0, waiters |-> <<>>]
\* a handler whose body registers a task on the registry that holds it
Registering == [fn |-> "register", err |-> NoError]
\* a slot of the HashMap while an insert is rewriting it
Torn == [fn |-> "torn", err |-> NoError]
\* one registry, no call on it yet. A caller of the registry has its
\* position, the call it makes (op, id, h), whether its handler went on to
\* register, and what its lookup found. everReg: the handlers an insert
\* stored under each id; before: for each registration, the callers whose
\* handler was running when it was issued
RegistryUnlocked ==
    /\ rw = Unlocked
    /\ rmap = EmptyMap
    /\ tk = [t \in Tasks |->
                [pc |-> "idle", op |-> "none", id |-> "", h |-> NoHandler,
                 nested |-> FALSE, found |-> NoHandler, res |-> "none"]]
    /\ rhist = [everReg |-> [id \in Ids |-> {}],
                before |-> [t \in Tasks |-> {}]]

\* ------------------------------------------------------- the native addon
\* HTTP requests served by the addon, and registerTask calls made by the
\* JavaScript program, in one behaviour
MaxHttp == 2
MaxJsReg == 2
HttpRequests == 1..MaxHttp
\* TunnelServer::new: nothing registered in either namespace, no request.
\* The JavaScript thread is in its event loop, inside a handler or in the
\* join of a registration (pc), and has the request whose handler it runs
\* (run, 0: none), the position of the thread a registration spawned (reg),
\* the namespace and id being registered, the registrations made, and the
\* handler calls that call_async queued for it; a request has its
\* position, the namespace and id it names and its HTTP status. The thread
\* that a registration spawns and joins holds the lock under the number
\* MaxHttp + 1
AddonIdle ==
    /\ nlock = [ns \in {"task", "event"} |-> Unlocked]
    /\ nmap = [ns \in {"task", "event"} |-> {}]
    /\ js = [pc |-> "loop", run |-> 0, reg |-> "none", ns |-> "", id |-> "",
             n |-> 0, calls |-> <<>>]
    /\ nreq = [r \in HttpRequests |->
                 [pc |-> "idle", ns |-> "", id |-> "", status |-> 0]]

\* the dispatch layer as the worker channel sees it: one router, nothing
\* registered, no request served
DispatchIdle ==
    /\ config = DefaultConfig
    /\ tasks = EmptyMap
    /\ events = EmptyMap
    /\ reg = NoReg
    /\ rcall = NoCall
    /\ http = NoHttp
    /\ flight = NoFlight

\* --------------------------------------------------------------------- Init
SpawnedWorker ==
    /\ request_id = 1
    /\ dropped = FALSE
    /\ cpc = [c \in Callers |-> "idle"]
    /\ cid = [c \in Callers |-> 0]
    /\ chan = [c \in Callers |-> [st |-> "none", val |-> NoLine]]
    /\ cres = [c \in Callers |-> [st |-> "none", msg |-> "", id |-> 0, n |-> 0]]
    /\ queue = <<>>
    /\ wpc = "recv"
    /\ wcur = NoReq
    /\ pending_responses = {}
    /\ stdin = [len |-> 0, id |-> 0, part |-> "none", full |-> FALSE]
    /\ stdinBroken = FALSE
    /\ rpc = "running"
    /\ stdoutClosed = FALSE
    /\ workerExited = FALSE
    /\ lineCount = 0
    /\ hist = [completions |-> [c \in Callers |-> 0],
               deliveries |-> [n \in 1..MaxLines |-> 0],
               skipped |-> FALSE,
               inserts |-> [c \in Callers |-> 0],
               removes |-> [c \in Callers |-> 0],
               overwritten |-> {},
               tornDown |-> FALSE,
               writeFailed |-> FALSE,
               written |-> {}]

Init == DispatchIdle /\ SpawnedWorker /\ RegistryUnlocked /\ AddonIdle

\* ================================================================ callers
\* (variant: the counter is read but not advanced)
FetchAdd_NoIncrement(r) == r

\* AtomicU64::fetch_add(1): the value the counter takes; the u64 wraps only
\* after 2^64 allocations, out of reach of the MaxReq calls of a behaviour
FetchAdd(r) == r + 1

\* the wrapper each caller runs: the odd ones execute_task, the even ones
\* emit_event
Kind(c) == IF c % 2 = 1 THEN "task" ELSE "event"

\* execute_task / emit_event, first statement: allocate the correlation id
\* (callers are interchangeable: they are numbered in the order in which
\* they allocate)
AllocId(c, kind) ==
    /\ ~dropped
    /\ cpc[c] = "idle"
    /\ \A d \in Callers : d < c => cpc[d] # "idle"
    /\ cid' = [cid EXCEPT ![c] = request_id]
    /\ request_id' = FetchAdd(request_id)
    /\ Kind(c) = kind
    /\ cpc' = [cpc EXCEPT ![c] = "alloc"]
    /\ UNCHANGED <<dropped, chan, cres, queue, wpc, wcur, pending_responses,
                   stdin, stdinBroken, rpc, stdoutClosed, workerExited,
                   lineCount, hist>>

ExecuteTask(c) == AllocId(c, "task")
EmitEvent(c) == AllocId(c, "event")

\* (variant: a message can still be sent after the receiver is gone)
SendFails_Never == FALSE

\* UnboundedSender::send fails once the receiver (owned by the writer thread)
\* has been dropped
SendFails == wpc = "stopped"

\* send_request up to the await: create the oneshot channel and hand
\* (request, response_tx) to the writer, or fail with "Worker channel closed"
SendRequest(c) ==
    /\ cpc[c] = "alloc"
    /\ IF SendFails
       THEN /\ cpc' = [cpc EXCEPT ![c] = "done"]
            /\ cres' = [cres EXCEPT ![c] = ErrChannelClosed]
            /\ UNCHANGED <<queue, chan>>
       ELSE /\ queue' = Append(queue, [id |-> cid[c], tx |-> c])
            /\ chan' = [chan EXCEPT ![c] = [st |-> "open", val |-> NoLine]]
            /\ cpc' = [cpc EXCEPT ![c] = "waiting"]
            /\ UNCHANGED cres
    /\ UNCHANGED <<request_id, dropped, cid, wpc, wcur, pending_responses,
                   stdin, stdinBroken, rpc, stdoutClosed, workerExited,
                   lineCount, hist>>

\* execute_task / emit_event return what they make of the response received
\* (Ok or Err after its ok flag): here, the response itself
ResponseToResult(kind, resp) ==
    [st |-> "resp", msg |-> "", id |-> resp.id, n |-> resp.n]

\* response_rx.await resolves: with the response, or with RecvError when the
\* sender was dropped; the wrapper then returns
AwaitResponse(c) ==
    /\ cpc[c] = "waiting"
    /\ chan[c].st \in {"sent", "closed"}
    /\ cres' = [cres EXCEPT ![c] =
                  IF chan[c].st = "sent"
                  THEN ResponseToResult(Kind(c), chan[c].val)
                  ELSE ErrResponseClosed]
    /\ cpc' = [cpc EXCEPT ![c] = "done"]
    /\ UNCHANGED <<request_id, dropped, cid, chan, queue, wpc, wcur,
                   pending_responses, stdin, stdinBroken, rpc, stdoutClosed, workerExited, lineCount, hist>>

\* the future of the call is dropped while it awaits (the HTTP client went
\* away): the Receiver is dropped with it
CallerAbandon(c) ==
    /\ cpc[c] = "waiting"
    /\ cpc' = [cpc EXCEPT ![c] = "abandoned"]
    /\ chan' = [chan EXCEPT ![c] = [st |-> "gone", val |-> NoLine]]
    /\ UNCHANGED <<request_id, dropped, cid, cres, queue, wpc, wcur,
                   pending_responses, stdin, stdinBroken, rpc, stdoutClosed, workerExited, lineCount, hist>>

\* the NodeWorker is dropped (no call borrows it any more): stdin_tx goes
DropNodeWorker ==
    /\ ~dropped
    /\ \A c \in Callers : cpc[c] \in {"idle", "done", "abandoned"}
    /\ dropped' = TRUE
    /\ UNCHANGED <<request_id, cpc, cid, chan, cres, queue, wpc, wcur,
                   pending_responses, stdin, stdinBroken, rpc, stdoutClosed, workerExited, lineCount, hist>>

\* ============================================================ teardown
\* (variant: the table goes with the first thread that ends)
MapDropped_EitherEnds(w, r) == w = "stopped" \/ r = "stopped"

\* the pending table is owned by the two threads (Arc): it is dropped, and
\* every sender in it with it, when the second of them ends
MapDropped(w, r) == w = "stopped" /\ r = "stopped"

\* effect on (pending_responses, chan, hist) of a thread ending; q holds the
\* messages still queued when it is the writer that ends (they are dropped
\* with the receiver)
ThreadEnds(w, r, q, h) ==
    LET queued == {q[i].tx : i \in 1..Len(q)}
        chq == DropSenders(chan, queued)
    IN IF MapDropped(w, r)
       THEN /\ pending_responses' = {}
            /\ chan' = DropSenders(chq, Senders(pending_responses))
            /\ hist' = [h EXCEPT
                  !.removes = [c \in Callers |->
                      IF c \in Senders(pending_responses) THEN @[c] + 1 ELSE @[c]],
                  !.completions = [c \in Callers |->
                      IF c \in (Senders(pending_responses) \cup queued)
                         /\ chan[c].st = "open"
                      THEN @[c] + 1 ELSE @[c]],
                  !.tornDown = TRUE]
       ELSE /\ pending_responses' = pending_responses
            /\ chan' = chq
            /\ hist' = [h EXCEPT
                  !.completions = [c \in Callers |->
                      IF c \in queued /\ chan[c].st = "open"
                      THEN @[c] + 1 ELSE @[c]]]

\* ================================================================= writer
\* the writer thread ends: rx, stdin and its handle on the table are dropped
WriterStop(h) ==
    /\ wpc' = "stopped"
    /\ wcur' = NoReq
    /\ queue' = <<>>
    /\ ThreadEnds("stopped", rpc, queue, h)

\* (variant: the newest message of the channel is taken first)
WriterRecv_Newest ==
    /\ wpc = "recv"
    /\ queue # <<>>
    /\ LET msg == queue[Len(queue)]
           old == Senders(PendingGet(pending_responses, msg.id)) \ {msg.tx}
       IN /\ wcur' = msg
          /\ pending_responses' = PendingInsert(pending_responses, msg.id, msg.tx)
          /\ chan' = DropSenders(chan, old)
          /\ hist' = [hist EXCEPT
                !.inserts[msg.tx] = @ + 1,
                !.overwritten = @ \cup old,
                !.completions = [c \in Callers |->
                    IF c \in old /\ chan[c].st = "open" THEN @[c] + 1 ELSE @[c]]]
    /\ queue' = SubSeq(queue, 1, Len(queue) - 1)
    /\ wpc' = "json"
    /\ UNCHANGED <<request_id, dropped, cpc, cid, cres, stdin, stdinBroken, rpc,
                   stdoutClosed, workerExited, lineCount>>

\* (variant: the sender is not stored before the request is written)
WriterRecv_WriteFirst ==
    /\ wpc = "recv"
    /\ queue # <<>>
    /\ wcur' = Head(queue)
    /\ queue' = Tail(queue)
    /\ wpc' = "json"
    /\ UNCHANGED <<request_id, dropped, cpc, cid, cres, stdin, stdinBroken, rpc,
                   stdoutClosed, workerExited, lineCount, pending_responses,
                   chan, hist>>

\* rx.blocking_recv() returns a message, and
\* pending_responses.lock().unwrap().insert(id, response_tx): a sender already
\* stored under the id is replaced, and dropped
WriterRecv ==
    /\ wpc = "recv"
    /\ queue # <<>>
    /\ LET msg == Head(queue)
           old == Senders(PendingGet(pending_responses, msg.id)) \ {msg.tx}
       IN /\ wcur' = msg
          /\ pending_responses' = PendingInsert(pending_responses, msg.id, msg.tx)
          /\ chan' = DropSenders(chan, old)
          /\ hist' = [hist EXCEPT
                !.inserts[msg.tx] = @ + 1,
                !.overwritten = @ \cup old,
                !.completions = [c \in Callers |->
                    IF c \in old /\ chan[c].st = "open" THEN @[c] + 1 ELSE @[c]]]
    /\ queue' = Tail(queue)
    /\ wpc' = "json"
    /\ UNCHANGED <<request_id, dropped, cpc, cid, cres, stdin, stdinBroken, rpc,
                   stdoutClosed, workerExited, lineCount>>

\* rx.blocking_recv() returns None: every sender is gone and nothing is queued
WriterRecvNone ==
    /\ wpc = "recv"
    /\ queue = <<>>
    /\ dropped
    /\ WriterStop(hist)
    /\ UNCHANGED <<request_id, dropped, cpc, cid, cres, stdin,
                   stdinBroken, rpc, stdoutClosed, workerExited, lineCount>>

\* (variant: the next message is taken as soon as the json is written)
WriterNext_SkipNewline(pc) == "recv"

\* (variant: after a record the writer waits for the response to it)
WriterNext_AwaitResponse(pc) == IF pc = "json" THEN "nl" ELSE "await"

\* the position after a successful write: after the newline, stdin.flush()
\* (ChildStdin is unbuffered, its flush returns Ok(())) and back to
\* blocking_recv
WriterNext(pc) == IF pc = "json" THEN "nl" ELSE "recv"

\* stdin.write_all(json) / stdin.write_all(b"\n"): the chunk reaches the
\* stream, or the write fails and the loop breaks; while the pipe is full
\* write_all blocks
WriterWrite ==
    /\ wpc \in {"json", "nl"}
    /\ stdinBroken \/ ~stdin.full
    /\ IF stdinBroken
       THEN /\ WriterStop([hist EXCEPT !.writeFailed = TRUE])
            /\ UNCHANGED stdin
       ELSE /\ stdin' = [len |-> stdin.len + 1, id |-> wcur.id, part |-> wpc,
                         full |-> stdin.full]
            /\ wpc' = WriterNext(wpc)
            /\ wcur' = IF wpc' = "recv" THEN NoReq ELSE wcur
            /\ hist' = [hist EXCEPT
                  !.written = IF wpc = "nl" THEN @ \cup {wcur.id} ELSE @]
            /\ UNCHANGED <<queue, pending_responses, chan>>
    /\ UNCHANGED <<request_id, dropped, cpc, cid, cres, stdinBroken, rpc,
                   stdoutClosed, workerExited, lineCount>>

\* ================================================================= reader
\* (variant: responses are taken to come back in the order of the requests,
\* the oldest entry is resolved)
ReaderLookup_Oldest(p, resp) == {e \in p : \A f \in p : e.id <= f.id}

\* (variant: an entry whose receiver is gone is left alone)
ReaderLookup_SkipGone(p, resp) ==
    {e \in PendingGet(p, resp.id) : cpc[e.tx] # "abandoned"}

\* (variant: a response that matches no entry goes to every waiter)
ReaderLookup_Broadcast(p, resp) ==
    IF PendingGet(p, resp.id) = {} THEN p ELSE PendingGet(p, resp.id)

\* the entry the reader resolves with a decoded response
ReaderLookup(p, resp) == PendingGet(p, resp.id)

\* the table after the reader took the entry out
ReaderTake(p, resp) == {e \in p : e.id # resp.id}

\* (variant: a line that does not decode ends the loop)
ReaderAfterLine_Break(line) == IF IsResponse(line) THEN "running" ELSE "stopped"

\* where the for loop over reader.lines() stands after a line
ReaderAfterLine(line) == "running"

\* one iteration of the loop over reader.lines(), for the line the worker
\* wrote next: a line that is read and decodes takes the entry of its id out
\* of the table and sends the response through it (the result of send is
\* ignored); any other line is skipped
ReaderLine(line) ==
    /\ rpc = "running"
    /\ lineCount < MaxLines
    /\ lineCount' = lineCount + 1
    /\ LET found == IF IsResponse(line)
                    THEN ReaderLookup(pending_responses, line) ELSE {}
           txs == Senders(found)
           heard == {c \in txs : chan[c].st # "gone"}
       IN /\ rpc' = ReaderAfterLine(line)
          /\ IF found # {}
             THEN /\ pending_responses' = ReaderTake(pending_responses, line)
                  /\ chan' = SendAll(chan, txs, line)
                  /\ hist' = [hist EXCEPT
                        !.removes = [c \in Callers |->
                            IF c \in txs THEN @[c] + 1 ELSE @[c]],
                        !.deliveries[line.n] = @ + Cardinality(txs),
                        !.completions = [c \in Callers |->
                            IF c \in heard THEN @[c] + 1 ELSE @[c]]]
             ELSE /\ UNCHANGED <<pending_responses, chan>>
                  /\ hist' = [hist EXCEPT !.skipped = @ \/ ~IsResponse(line)]
    /\ UNCHANGED <<request_id, dropped, cpc, cid, cres, queue, wpc, wcur,
                   stdin, stdinBroken, stdoutClosed, workerExited>>

\* reader.lines() ends: the worker closed its stdout and every line it wrote
\* has been read; the thread ends
ReaderEOF ==
    /\ rpc = "running"
    /\ stdoutClosed
    /\ rpc' = "stopped"
    /\ ThreadEnds(wpc, "stopped", <<>>, hist)
    /\ UNCHANGED <<request_id, dropped, cpc, cid, cres, queue, wpc, wcur,
                   stdin, stdinBroken, stdoutClosed, workerExited,
                   lineCount>>

\* ====================================================== the worker process
\* the worker closes its stdout and keeps running (lines it wrote before may
\* still be read)
WorkerCloseStdout ==
    /\ ~stdoutClosed
    /\ stdoutClosed' = TRUE
    /\ UNCHANGED <<request_id, dropped, cpc, cid, chan, cres, queue, wpc,
                   wcur, pending_responses, stdin, stdinBroken, rpc, workerExited, lineCount, hist>>

\* the worker, alive, stops reading its stdin and the pipe fills up
\* (full = TRUE), or reads again (full = FALSE)
WorkerReads(full) ==
    /\ ~stdinBroken
    /\ stdin.full # full
    /\ stdin' = [stdin EXCEPT !.full = full]
    /\ UNCHANGED <<request_id, dropped, cpc, cid, chan, cres, queue, wpc,
                   wcur, pending_responses, stdinBroken, rpc, stdoutClosed,
                   workerExited, lineCount, hist>>

\* the worker closes its stdin and keeps running: a blocked write fails
WorkerCloseStdin ==
    /\ ~stdinBroken
    /\ stdinBroken' = TRUE
    /\ stdin' = [stdin EXCEPT !.full = FALSE]
    /\ UNCHANGED <<request_id, dropped, cpc, cid, chan, cres, queue, wpc,
                   wcur, pending_responses, rpc, stdoutClosed,
                   workerExited, lineCount, hist>>

\* the worker process exits: both its stream ends are closed
WorkerExit ==
    /\ ~workerExited
    /\ workerExited' = TRUE
    /\ stdoutClosed' = TRUE
    /\ stdinBroken' = TRUE
    /\ stdin' = [stdin EXCEPT !.full = FALSE]
    /\ UNCHANGED <<request_id, dropped, cpc, cid, chan, cres, queue, wpc,
                   wcur, pending_responses, rpc, lineCount, hist>>

\* ============================================================ specification
\* a step of the worker channel leaves the dispatch layer as it is
Next ==
    \/ \E c \in Callers : ExecuteTask(c) /\ UNCHANGED <<dvars, lvars, nvars>>
    \/ \E c \in Callers : EmitEvent(c) /\ UNCHANGED <<dvars, lvars, nvars>>
    \/ \E c \in Callers : SendRequest(c) /\ UNCHANGED <<dvars, lvars, nvars>>
    \/ \E c \in Callers : AwaitResponse(c) /\ UNCHANGED <<dvars, lvars, nvars>>
    \/ \E c \in Callers : CallerAbandon(c) /\ UNCHANGED <<dvars, lvars, nvars>>
    \/ DropNodeWorker /\ UNCHANGED <<dvars, lvars, nvars>>
    \/ WriterRecv /\ UNCHANGED <<dvars, lvars, nvars>>
    \/ WriterRecvNone /\ UNCHANGED <<dvars, lvars, nvars>>
    \/ WriterWrite /\ UNCHANGED <<dvars, lvars, nvars>>
    \/ \E line \in Lines(lineCount + 1) : ReaderLine(line) /\ UNCHANGED <<dvars, lvars, nvars>>
    \/ ReaderEOF /\ UNCHANGED <<dvars, lvars, nvars>>
    \/ \E full \in BOOLEAN : WorkerReads(full) /\ UNCHANGED <<dvars, lvars, nvars>>
    \/ WorkerCloseStdout /\ UNCHANGED <<dvars, lvars, nvars>>
    \/ WorkerCloseStdin /\ UNCHANGED <<dvars, lvars, nvars>>
    \/ WorkerExit /\ UNCHANGED <<dvars, lvars, nvars>>

Spec == Init /\ [][Next]_vars

\* the two threads and the tasks of the callers keep running when they can;
\* nothing obliges the worker to act, a client to call or to go away. A write
\* into a full pipe is not a step the writer can take: write_all stays
\* blocked for as long as the worker does not read
Fairness ==
    /\ WF_vars(WriterRecv /\ UNCHANGED <<dvars, lvars, nvars>>)
    /\ WF_vars(WriterRecvNone /\ UNCHANGED <<dvars, lvars, nvars>>)
    /\ WF_vars(WriterWrite /\ UNCHANGED <<dvars, lvars, nvars>>)
    /\ WF_vars(ReaderEOF /\ UNCHANGED <<dvars, lvars, nvars>>)
    /\ \A c \in Callers :
          /\ WF_vars(SendRequest(c) /\ UNCHANGED <<dvars, lvars, nvars>>)
          /\ WF_vars(AwaitResponse(c) /\ UNCHANGED <<dvars, lvars, nvars>>)

FairSpec == Spec /\ Fairness

\* ======================================================== the registry
\* FunctionTaskHandler::execute / FunctionEventHandler::emit: the closure is
\* applied to the input
HandlerExecute(h, x) ==
    IF h.fn = "inc" THEN Ok(x + 1)
    ELSE IF h.fn = "zero" THEN Ok(0)
    ELSE Err(h.err)
HandlerEmit(h, x) ==
    IF h.fn \in {"inc", "zero"} THEN Ok(NoValue) ELSE Err(h.err)

\* (variant: an id already registered keeps its first handler)
RegistryInsert_KeepFirst(m, id, h) ==
    IF m[id] = NoHandler THEN [m EXCEPT ![id] = h] ELSE m

\* HashMap::insert under the write lock: the handler stored under the id is
\* the new one
RegistryInsert(m, id, h) == [m EXCEPT ![id] = h]

\* one invocation of a handler, as the properties see it
Call(ns, id, h, x) == [ns |-> ns, id |-> id, h |-> h, x |-> x]

\* (variant: a handler's failure is reported as an internal error)
RegistryExecuteTask_WrapError(m, id, x) ==
    IF m[id] = NoHandler
    THEN [res |-> Err(NotFound), calls |-> <<>>]
    ELSE [res |-> IF HandlerExecute(m[id], x).ok
                  THEN HandlerExecute(m[id], x)
                  ELSE Err(InternalError(HandlerExecute(m[id], x).err.variant)),
          calls |-> <<Call("task", id, m[id], x)>>]

\* (variant: an id that is not registered falls back to any handler there is)
RegistryExecuteTask_AnyHandler(m, id, x) ==
    LET known == {i \in Ids : m[i] # NoHandler}
        use == IF m[id] # NoHandler \/ known = {} THEN id
               ELSE CHOOSE i \in known : TRUE
    IN IF m[use] = NoHandler
       THEN [res |-> Err(NotFound), calls |-> <<>>]
       ELSE [res |-> HandlerExecute(m[use], x),
             calls |-> <<Call("task", use, m[use], x)>>]

\* TaskRegistry::execute_task on the task map m: NotFound when the id has no
\* handler, else what the handler returns
RegistryExecuteTask(m, id, x) ==
    IF m[id] = NoHandler
    THEN [res |-> Err(NotFound), calls |-> <<>>]
    ELSE [res |-> HandlerExecute(m[id], x),
          calls |-> <<Call("task", id, m[id], x)>>]

\* TaskRegistry::emit_event on the event map m
RegistryEmitEvent(m, id, x) ==
    IF m[id] = NoHandler
    THEN [res |-> Err(NotFound), calls |-> <<>>]
    ELSE [res |-> HandlerEmit(m[id], x),
          calls |-> <<Call("event", id, m[id], x)>>]

\* ==================================================== the worker, from the
\* dispatch layer: what one call through the NodeWorker comes to. st is
\* "resp" (a response with the id of the request was delivered), "closed"
\* (stdin_tx.send failed) or "lost" (the response sender was dropped);
\* written tells whether the envelope was written to the worker's stdin:
\* the writer puts the sender into the table before it writes, so that a
\* response with the id is delivered whether the write was done or not.
\* error is the WorkerError of the response: NoWorkerError when the field
\* is absent
WorkerErrors == {[message |-> "denied", code |-> 422, codeName |-> "VALIDATION"]}
WorkerAnswers ==
    [st : {"resp"}, written : BOOLEAN, ok : {TRUE},
     result : Inputs \cup {NoValue, JsonNull}, error : {NoWorkerError}]
    \cup [st : {"resp"}, written : BOOLEAN, ok : {FALSE}, result : {NoValue},
          error : {NoWorkerError} \cup WorkerErrors]
    \cup [st : {"resp"}, written : BOOLEAN, ok : {FALSE}, result : {0},
          error : {NoWorkerError}]
    \cup [st : {"closed"}, written : {FALSE}, ok : {FALSE}, result : {NoValue},
          error : {NoWorkerError}]
    \cup [st : {"lost"}, written : BOOLEAN, ok : {FALSE}, result : {NoValue},
          error : {NoWorkerError}]

\* send_request: the two ways it fails
SendRequestError(ans) ==
    IF ans.st = "closed" THEN InternalError("Worker channel closed")
    ELSE IF ans.st = "lost" THEN InternalError("Worker response channel closed")
    ELSE NoError
\* the error made of a response with ok = false
WorkerFailure(ans) ==
    InternalError(IF ans.error = NoWorkerError THEN "Unknown error"
                  ELSE ans.error.message)
\* (variant: the ok flag is not consulted when a result is present)
WorkerExecuteTask_ResultWins(ans) ==
    IF ans.st # "resp" THEN Err(SendRequestError(ans))
    ELSE IF ans.ok \/ ans.result # NoValue
    THEN Ok(IF ans.result = NoValue THEN JsonNull ELSE ans.result)
    ELSE Err(WorkerFailure(ans))

\* NodeWorker::execute_task, from send_request on
WorkerExecuteTask(ans) ==
    IF ans.st # "resp" THEN Err(SendRequestError(ans))
    ELSE IF ans.ok THEN Ok(IF ans.result = NoValue THEN JsonNull ELSE ans.result)
    ELSE Err(WorkerFailure(ans))
\* (variant: the event is done once its request is on the writer's channel)
WorkerEmitEvent_FireAndForget(ans) ==
    IF ans.st = "closed" THEN Err(SendRequestError(ans)) ELSE Ok(NoValue)

\* NodeWorker::emit_event, from send_request on
WorkerEmitEvent(ans) ==
    IF ans.st # "resp" THEN Err(SendRequestError(ans))
    ELSE IF ans.ok THEN Ok(NoValue)
    ELSE Err(WorkerFailure(ans))
\* NodeWorker::authenticate: an Auth envelope goes through send_request and a
\* negative answer of the worker is Unauthorized
WorkerAuthenticate(ans) ==
    IF ans.st # "resp" THEN Err(SendRequestError(ans))
    ELSE IF ans.ok THEN Ok(NoValue)
    ELSE Err(Unauthorized)
\* the envelope of a call, if it was written
Envelope(kind, ans) == IF ans.written THEN <<kind>> ELSE <<>>

\* ======================================================= HTTP responses
\* SuccessResponse::new(result) / SuccessResponse::empty(), as Json: 200
SuccessResponse(v) ==
    [NoResponse EXCEPT !.status = 200, !.envelope = TRUE, !.ok = TRUE,
                       !.result = v]
\* ErrorResponse::new(code, code_name, message) under the status
ErrorResponse(status, code, codeName, message) ==
    [NoResponse EXCEPT !.status = status, !.envelope = TRUE, !.ok = FALSE,
                       !.code = code, !.codeName = codeName,
                       !.message = message]
\* (variant: the detail of an InvalidJson is replaced by a fixed text)
IntoResponse_FixedDetail(e) ==
    CASE e.variant = "Unauthorized" ->
            ErrorResponse(401, 401, "UNAUTHORIZED", "Invalid or missing token")
      [] e.variant = "Forbidden" ->
            ErrorResponse(403, 403, "FORBIDDEN", "Task or event not in allow-list")
      [] e.variant = "NotFound" ->
            ErrorResponse(404, 404, "NOT_FOUND", "Task or event not found")
      [] e.variant = "MethodNotAllowed" ->
            ErrorResponse(405, 405, "METHOD_NOT_ALLOWED", "Method not allowed")
      [] e.variant = "InvalidJson" ->
            ErrorResponse(400, 400, "INVALID_JSON", "Invalid JSON")
      [] e.variant = "InternalError" ->
            ErrorResponse(500, 500, "INTERNAL_ERROR", e.msg)

\* TunnelError::into_response
IntoResponse(e) ==
    CASE e.variant = "Unauthorized" ->
            ErrorResponse(401, 401, "UNAUTHORIZED", "Invalid or missing token")
      [] e.variant = "Forbidden" ->
            ErrorResponse(403, 403, "FORBIDDEN", "Task or event not in allow-list")
      [] e.variant = "NotFound" ->
            ErrorResponse(404, 404, "NOT_FOUND", "Task or event not found")
      [] e.variant = "MethodNotAllowed" ->
            ErrorResponse(405, 405, "METHOD_NOT_ALLOWED", "Method not allowed")
      [] e.variant = "InvalidJson" ->
            ErrorResponse(400, 400, "INVALID_JSON", e.msg)
      [] e.variant = "InternalError" ->
            ErrorResponse(500, 500, "INTERNAL_ERROR", e.msg)
\* the answers axum gives by itself, none with an envelope: a route asked
\* with a method it has no handler for, and a body the Json extractor
\* rejects (the content type is looked at first, then the syntax, then the
\* shape)
RouterMethodNotAllowed == [NoResponse EXCEPT !.status = 405]
JsonRejection(body) ==
    [NoResponse EXCEPT !.status = CASE body = Untyped -> 415
                                    [] body = Malformed -> 400
                                    [] body = Misshapen -> 422]

\* what serving a request comes to: the response, the handlers of the
\* registry that were invoked and the envelopes written to the worker
Outcome(resp, calls, envelopes) ==
    [resp |-> resp, calls |-> calls, envelopes |-> envelopes]
\* the result of a handler or of the worker, as a response
Respond(res) == IF res.ok THEN SuccessResponse(res.val) ELSE IntoResponse(res.err)

\* ================================================================ requests
\* the value of the configured auth header in a request: "absent" (no such
\* header), "opaque" (bytes that HeaderValue::to_str rejects) or its text
Tokens == {"absent", "opaque", "secret", "guess"}
Requests ==
    [route : {"task", "event"}, method : {"POST"}, id : Ids, token : Tokens,
     body : Inputs \cup {Malformed, Misshapen, Untyped}]
    \cup [route : {"task", "event"}, method : {"GET", "OPTIONS"}, id : Ids,
          token : Tokens, body : {NoValue}]
    \cup [route : {"discovery"}, method : {"GET", "POST", "OPTIONS"}, id : {""},
          token : Tokens, body : {NoValue}]

\* ============================================================ auth.rs
\* validate_auth: the header must be there, be text, and equal the token
ValidateAuth(token, cfg) ==
    IF token \in {"absent", "opaque"} THEN Err(Unauthorized)
    ELSE IF token # cfg.auth_token THEN Err(Unauthorized)
    ELSE Ok(NoValue)

\* auth_middleware around the rest of the stack (next)
AuthMiddleware(cfg, req, next) ==
    IF req.method = "OPTIONS" THEN next
    ELSE IF ~ValidateAuth(req.token, cfg).ok
         THEN Outcome(IntoResponse(Unauthorized), <<>>, <<>>)
         ELSE next

\* ==================================================== handlers.rs (local)
\* the allow-list check of the four handlers: an empty list lets every id
\* through
AllowListPasses(allowed, id) == allowed = {} \/ id \in allowed

\* the AllowList the discovery handlers build from the configuration
DiscoveryAllowList(cfg) ==
    [enabled |-> TRUE, tasks |-> cfg.allowed_tasks, events |-> cfg.allowed_events]
\* AllowList::contains_task / contains_event
Contains(enabled, list, id) == ~enabled \/ id \in list

\* the bodies a handler does not get a request out of: the Json extractor of
\* the local handlers wants the content type, serde_json::from_slice in the
\* IPC handlers reads the bytes whatever the headers say
BodyRejected(cfg, body) ==
    \/ body \in {Malformed, Misshapen}
    \/ cfg.app = "local" /\ body = Untyped

\* handlers::handle_task, with the Json extractor in front of it
HandleTask(cfg, m, req) ==
    IF BodyRejected(cfg, req.body) THEN Outcome(JsonRejection(req.body), <<>>, <<>>)
    ELSE IF ~AllowListPasses(cfg.allowed_tasks, req.id)
    THEN Outcome(IntoResponse(Forbidden), <<>>, <<>>)
    ELSE LET r == RegistryExecuteTask(m, req.id, req.body)
         IN Outcome(Respond(r.res), r.calls, <<>>)

\* handlers::handle_event
HandleEvent(cfg, m, req) ==
    IF BodyRejected(cfg, req.body) THEN Outcome(JsonRejection(req.body), <<>>, <<>>)
    ELSE IF ~AllowListPasses(cfg.allowed_events, req.id)
    THEN Outcome(IntoResponse(Forbidden), <<>>, <<>>)
    ELSE LET r == RegistryEmitEvent(m, req.id, req.body)
         IN Outcome(Respond(r.res), r.calls, <<>>)

\* handle_discovery (the same in handlers.rs and handlers_ipc.rs)
HandleDiscovery(cfg) ==
    Outcome([SuccessResponse(NoValue) EXCEPT !.allowList = DiscoveryAllowList(cfg)],
            <<>>, <<>>)

\* ================================================== handlers_ipc.rs (ipc)
\* the worker's own authentication, asked first when it is delegated
DelegatedAuth(cfg, auth) ==
    IF cfg.delegate_auth
    THEN [res |-> WorkerAuthenticate(auth), envelopes |-> Envelope("auth", auth)]
    ELSE [res |-> Ok(NoValue), envelopes |-> <<>>]

\* (variant: the allow-list is consulted before the body is parsed)
HandleTaskIpc_ListFirst(cfg, req, auth, ans) ==
    LET a == DelegatedAuth(cfg, auth)
    IN IF ~a.res.ok THEN Outcome(IntoResponse(a.res.err), <<>>, a.envelopes)
       ELSE IF ~AllowListPasses(cfg.allowed_tasks, req.id)
       THEN Outcome(IntoResponse(Forbidden), <<>>, a.envelopes)
       ELSE IF BodyRejected(cfg, req.body)
       THEN Outcome(IntoResponse(InvalidJson("body")), <<>>, a.envelopes)
       ELSE Outcome(Respond(WorkerExecuteTask(ans)), <<>>,
                    a.envelopes \o Envelope("task", ans))

\* handlers_ipc::handle_task; auth and ans are what the two calls to the
\* worker come to
HandleTaskIpc(cfg, req, auth, ans) ==
    LET a == DelegatedAuth(cfg, auth)
    IN IF ~a.res.ok THEN Outcome(IntoResponse(a.res.err), <<>>, a.envelopes)
       ELSE IF BodyRejected(cfg, req.body)
       THEN Outcome(IntoResponse(InvalidJson("body")), <<>>, a.envelopes)
       ELSE IF ~AllowListPasses(cfg.allowed_tasks, req.id)
       THEN Outcome(IntoResponse(Forbidden), <<>>, a.envelopes)
       ELSE Outcome(Respond(WorkerExecuteTask(ans)), <<>>,
                    a.envelopes \o Envelope("task", ans))

\* handlers_ipc::handle_event
HandleEventIpc(cfg, req, auth, ans) ==
    LET a == DelegatedAuth(cfg, auth)
    IN IF ~a.res.ok THEN Outcome(IntoResponse(a.res.err), <<>>, a.envelopes)
       ELSE IF BodyRejected(cfg, req.body)
       THEN Outcome(IntoResponse(InvalidJson("body")), <<>>, a.envelopes)
       ELSE IF ~AllowListPasses(cfg.allowed_events, req.id)
       THEN Outcome(IntoResponse(Forbidden), <<>>, a.envelopes)
       ELSE Outcome(Respond(WorkerEmitEvent(ans)), <<>>,
                    a.envelopes \o Envelope("event", ans))

\* ================================================================ lib.rs
\* the routes of create_tunnel_app / create_tunnel_app_ipc: post for tasks
\* and events, get and post for discovery
Route(cfg, tm, em, req, auth, ans) ==
    CASE req.route = "task" ->
            IF req.method # "POST" THEN Outcome(RouterMethodNotAllowed, <<>>, <<>>)
            ELSE IF cfg.app = "local" THEN HandleTask(cfg, tm, req)
            ELSE HandleTaskIpc(cfg, req, auth, ans)
      [] req.route = "event" ->
            IF req.method # "POST" THEN Outcome(RouterMethodNotAllowed, <<>>, <<>>)
            ELSE IF cfg.app = "local" THEN HandleEvent(cfg, em, req)
            ELSE HandleEventIpc(cfg, req, auth, ans)
      [] req.route = "discovery" ->
            IF req.method \notin {"GET", "POST"}
            THEN Outcome(RouterMethodNotAllowed, <<>>, <<>>)
            ELSE HandleDiscovery(cfg)

\* the CorsLayer around the nested routes: an OPTIONS request is answered
\* by the layer (a preflight answer: status 200, the CORS headers, no
\* body), any other goes on to the rest of the stack (next)
CorsLayer(req, next) ==
    IF req.method = "OPTIONS" THEN Outcome([NoResponse EXCEPT !.status = 200], <<>>, <<>>) ELSE next

\* (variant: the token is validated in front of the CORS layer, for every
\* method)
Serve_TokenFirst(cfg, tm, em, req, auth, ans) ==
    IF ~ValidateAuth(req.token, cfg).ok
    THEN Outcome(IntoResponse(Unauthorized), <<>>, <<>>)
    ELSE CorsLayer(req, Route(cfg, tm, em, req, auth, ans))

\* the router with its layers: auth_middleware wraps every route, in both
\* applications and whatever delegate_auth says, and the CORS layer wraps
\* the nested router
Serve(cfg, tm, em, req, auth, ans) ==
    CorsLayer(req, AuthMiddleware(cfg, req, Route(cfg, tm, em, req, auth, ans)))

\* ================================================== dispatch: the actions
cvars == <<request_id, dropped, cpc, cid, chan, cres, queue, wpc, wcur,
           pending_responses, stdin, stdinBroken, rpc, stdoutClosed,
           workerExited, lineCount, hist>>

\* the configurations a router is built from (the local application never
\* reads delegate_auth)
Configs ==
    [app : {"local"}, auth_token : {"secret"},
     allowed_tasks : {{}, {"a"}}, allowed_events : {{}, {"b"}},
     delegate_auth : {FALSE}]
    \cup [app : {"ipc"}, auth_token : {"secret"},
          allowed_tasks : {{}, {"a"}}, allowed_events : {{}, {"b"}},
          delegate_auth : BOOLEAN]

\* a configuration, an empty registry (TaskRegistry::new), a worker spawned
DispatchInit ==
    /\ SpawnedWorker
    /\ RegistryUnlocked
    /\ AddonIdle
    /\ config \in Configs
    /\ tasks = EmptyMap
    /\ events = EmptyMap
    /\ reg = NoReg
    /\ rcall = NoCall
    /\ http = NoHttp
    /\ flight = NoFlight

\* the observation of a registration of handler h under id of namespace ns
Registered(r, ns, id, h) ==
    LET old == IF ns = "task" THEN r.task[id] ELSE r.event[id]
    IN [n |-> r.n + 1,
        task |-> IF ns = "task" THEN [r.task EXCEPT ![id] = h] ELSE r.task,
        event |-> IF ns = "event" THEN [r.event EXCEPT ![id] = h] ELSE r.event,
        replaced |-> IF old \notin {NoHandler, h}
                     THEN r.replaced \cup {[ns |-> ns, id |-> id, h |-> old]}
                     ELSE r.replaced]

\* (variant: one map holds the handlers of both namespaces)
RegisterTask_SharedMap(id, h) ==
    /\ config.app = "local"
    /\ tasks' = RegistryInsert(tasks, id, h)
    /\ events' = RegistryInsert(events, id, h)
    /\ reg' = Registered(reg, "task", id, h)
    /\ UNCHANGED <<config, rcall, http>>
    /\ UNCHANGED <<cvars, lvars, nvars, flight>>

\* register_task
RegisterTask(id, h) ==
    /\ config.app = "local"
    /\ tasks' = RegistryInsert(tasks, id, h)
    /\ reg' = Registered(reg, "task", id, h)
    /\ UNCHANGED <<config, events, rcall, http>>
    /\ UNCHANGED <<cvars, lvars, nvars, flight>>

\* register_event
RegisterEvent(id, h) ==
    /\ config.app = "local"
    /\ events' = RegistryInsert(events, id, h)
    /\ reg' = Registered(reg, "event", id, h)
    /\ UNCHANGED <<config, tasks, rcall, http>>
    /\ UNCHANGED <<cvars, lvars, nvars, flight>>

\* execute_task called on the registry by the embedding program
RegistryExecute(id, x) ==
    /\ config.app = "local"
    /\ LET r == RegistryExecuteTask(tasks, id, x)
       IN rcall' = [ns |-> "task", id |-> id, x |-> x, res |-> r.res,
                    calls |-> r.calls, ans |-> NoAnswer,
                    resp |-> NoResponse]
    /\ UNCHANGED <<config, tasks, events, reg, http>>
    /\ UNCHANGED <<cvars, lvars, nvars, flight>>

\* emit_event called on the registry by the embedding program
RegistryEmit(id, x) ==
    /\ config.app = "local"
    /\ LET r == RegistryEmitEvent(events, id, x)
       IN rcall' = [ns |-> "event", id |-> id, x |-> x, res |-> r.res,
                    calls |-> r.calls, ans |-> NoAnswer,
                    resp |-> NoResponse]
    /\ UNCHANGED <<config, tasks, events, reg, http>>
    /\ UNCHANGED <<cvars, lvars, nvars, flight>>

\* a call the embedding program makes on the NodeWorker (execute_task for
\* the route "task", emit_event for "event"), as a request
Direct(route, id, x) ==
    [NoRequest EXCEPT !.route = route, !.id = id, !.body = x]

\* execute_task or emit_event is called on the NodeWorker: the request is on
\* the writer's channel and the call is suspended on its receiver
CallAwaits(route, id, x) ==
    /\ config.app = "ipc"
    /\ flight = NoFlight
    /\ flight' = [of |-> "worker", req |-> Direct(route, id, x),
                  stage |-> "call", auth |-> FALSE, written |-> FALSE]
    /\ UNCHANGED <<config, tasks, events, reg, rcall, http>>
    /\ UNCHANGED <<cvars, lvars, nvars>>

\* the writer thread writes the next envelope of the suspended request or
\* call, in the order of the sends: the Auth envelope when one was sent and
\* is not written yet (wherever the handler has got to since), else the
\* Task or Event envelope of the call it is suspended in
EnvelopeWritten ==
    /\ flight # NoFlight
    /\ IF flight.of = "http" /\ config.delegate_auth /\ ~flight.auth
       THEN flight' = [flight EXCEPT !.auth = TRUE]
       ELSE /\ flight.stage = "call" /\ ~flight.written
            /\ flight' = [flight EXCEPT !.written = TRUE]
    /\ UNCHANGED <<config, tasks, events, reg, rcall, http>>
    /\ UNCHANGED <<cvars, lvars, nvars>>

\* execute_task called on the NodeWorker by the embedding program returns;
\* ans is what send_request comes to: at once when the send fails, else
\* out of the suspension, with the envelope written or not as it was
WorkerCallTask(id, x, ans) ==
    /\ config.app = "ipc"
    /\ flight = IF ans.st = "closed" THEN NoFlight
                ELSE [of |-> "worker", req |-> Direct("task", id, x),
                      stage |-> "call", auth |-> FALSE,
                      written |-> ans.written]
    /\ rcall' = [ns |-> "worker.task", id |-> id, x |-> x,
                 res |-> WorkerExecuteTask(ans), calls |-> <<>>, ans |-> ans,
                 resp |-> NoResponse]
    /\ flight' = NoFlight
    /\ UNCHANGED <<config, tasks, events, reg, http>>
    /\ UNCHANGED <<cvars, lvars, nvars>>

\* emit_event called on the NodeWorker by the embedding program returns
WorkerCallEvent(id, x, ans) ==
    /\ config.app = "ipc"
    /\ flight = IF ans.st = "closed" THEN NoFlight
                ELSE [of |-> "worker", req |-> Direct("event", id, x),
                      stage |-> "call", auth |-> FALSE,
                      written |-> ans.written]
    /\ rcall' = [ns |-> "worker.event", id |-> id, x |-> x,
                 res |-> WorkerEmitEvent(ans), calls |-> <<>>, ans |-> ans,
                 resp |-> NoResponse]
    /\ flight' = NoFlight
    /\ UNCHANGED <<config, tasks, events, reg, http>>
    /\ UNCHANGED <<cvars, lvars, nvars>>

\* the TunnelErrors into_response is applied to
TunnelErrors ==
    LET Details == {"", "boom", "expected value at line 1 column 1"}
    IN {Unauthorized, Forbidden, NotFound, MethodNotAllowed}
       \cup {InvalidJson(m) : m \in Details}
       \cup {InternalError(m) : m \in Details}
\* into_response called on a TunnelError (by axum on a handler's Err, or
\* directly)
IntoResponseCall(e) ==
    /\ rcall = NoCall /\ http = NoHttp /\ flight = NoFlight
    /\ rcall' = [NoCall EXCEPT !.ns = "into_response", !.res = Err(e),
                                !.resp = IntoResponse(e)]
    /\ UNCHANGED <<config, tasks, events, reg, http>>
    /\ UNCHANGED <<cvars, lvars, nvars, flight>>

\* ====================================================== worker_protocol.rs
\* the envelopes given to the codec
RequestEnvelopes ==
    {[NoEnvelope EXCEPT !.dir = "request", !.type = "auth", !.id = i,
                        !.context = "ctx"] : i \in ResponseIds}
    \cup {[NoEnvelope EXCEPT !.dir = "request", !.type = t, !.id = i,
                             !.opId = o, !.value = v, !.context = "ctx"] :
             t \in {"task", "event"}, i \in ResponseIds, o \in Ids,
             v \in JsonValues}
    \cup {[NoEnvelope EXCEPT !.dir = "request", !.type = "shutdown", !.id = i] :
             i \in ResponseIds}
ResponseEnvelopes ==
    {[NoEnvelope EXCEPT !.dir = "response", !.id = i, !.ok = k, !.result = r,
                        !.error = e] :
        i \in ResponseIds, k \in BOOLEAN, r \in JsonValues \cup {None},
        e \in WorkerErrors \cup {NoWorkerError}}

\* serde_json::to_string of a WorkerRequest: the variant is the "type" tag,
\* task_id and event_id are renamed
RequestToJson(e) ==
    CASE e.type = "auth" ->
            [NoJson EXCEPT !.type = "auth", !.id = e.id, !.context = e.context]
      [] e.type = "task" ->
            [NoJson EXCEPT !.type = "task", !.id = e.id, !.taskId = e.opId,
                           !.input = e.value, !.context = e.context]
      [] e.type = "event" ->
            [NoJson EXCEPT !.type = "event", !.id = e.id, !.eventId = e.opId,
                           !.payload = e.value, !.context = e.context]
      [] e.type = "shutdown" ->
            [NoJson EXCEPT !.type = "shutdown", !.id = e.id]
\* serde_json::from_str::<WorkerRequest>
RequestFromJson(j) ==
    CASE j.type = "auth" ->
            [NoEnvelope EXCEPT !.dir = "request", !.type = "auth", !.id = j.id,
                               !.context = j.context]
      [] j.type = "task" ->
            [NoEnvelope EXCEPT !.dir = "request", !.type = "task", !.id = j.id,
                               !.opId = j.taskId, !.value = j.input,
                               !.context = j.context]
      [] j.type = "event" ->
            [NoEnvelope EXCEPT !.dir = "request", !.type = "event", !.id = j.id,
                               !.opId = j.eventId, !.value = j.payload,
                               !.context = j.context]
      [] j.type = "shutdown" ->
            [NoEnvelope EXCEPT !.dir = "request", !.type = "shutdown", !.id = j.id]
\* serde_json::to_string of a WorkerResponse: result and error are skipped
\* when they are None
ResponseToJson(e) ==
    [NoJson EXCEPT !.id = e.id,
                   !.ok = IF e.ok THEN "true" ELSE "false",
                   !.result = IF e.result = None THEN Absent ELSE e.result,
                   !.error = e.error]
\* serde_json::from_str::<WorkerResponse>; result is an Option<Value>: None
\* when the key is missing and when its value is null
ResponseFromJson(j) ==
    [NoEnvelope EXCEPT !.dir = "response", !.id = j.id, !.ok = (j.ok = "true"),
                       !.result = IF j.result \in {Absent, "null"} THEN None
                                 ELSE j.result,
                       !.error = j.error]
ToJson(e) == IF e.dir = "request" THEN RequestToJson(e) ELSE ResponseToJson(e)
FromJson(dir, j) ==
    IF dir = "request" THEN RequestFromJson(j) ELSE ResponseFromJson(j)

\* an envelope is handed to the codec
CodecInit ==
    /\ SpawnedWorker
    /\ RegistryUnlocked
    /\ AddonIdle
    /\ config = DefaultConfig
    /\ tasks = EmptyMap
    /\ events = EmptyMap
    /\ reg = NoReg
    /\ http = NoHttp
    /\ flight = NoFlight
    /\ \E e \in RequestEnvelopes \cup ResponseEnvelopes :
          rcall = [NoCall EXCEPT !.ns = "codec", !.codec.stage = "value",
                                 !.codec.orig = e]
\* the envelope is encoded as one line
Serialize ==
    /\ rcall.codec.stage = "value"
    /\ rcall' = [rcall EXCEPT !.codec.stage = "line",
                              !.codec.line = ToJson(rcall.codec.orig)]
    /\ UNCHANGED <<config, tasks, events, reg, http>>
    /\ UNCHANGED <<cvars, lvars, nvars, flight>>
\* the line is decoded as an envelope of the same direction
Deserialize ==
    /\ rcall.codec.stage = "line"
    /\ rcall' = [rcall EXCEPT !.codec.stage = "back",
                              !.codec.back = FromJson(rcall.codec.orig.dir,
                                                      rcall.codec.line)]
    /\ UNCHANGED <<config, tasks, events, reg, http>>
    /\ UNCHANGED <<cvars, lvars, nvars, flight>>
CodecNext == Serialize \/ Deserialize
CodecSpec == CodecInit /\ [][CodecNext]_vars

\* the request gets to a handler of the IPC application: a POST on a task
\* or event route that the token layer lets through
Asks(cfg, req) ==
    /\ cfg.app = "ipc"
    /\ req.route \in {"task", "event"}
    /\ req.method = "POST"
    /\ ValidateAuth(req.token, cfg).ok
\* the handler gets as far as execute_task / emit_event on the worker: the
\* authentication, where delegated, was answered positively (auth), the
\* body parses and the allow-list lets the id through
Forwards(cfg, req, auth) ==
    /\ Asks(cfg, req)
    /\ DelegatedAuth(cfg, auth).res.ok
    /\ ~BodyRejected(cfg, req.body)
    /\ AllowListPasses(IF req.route = "task" THEN cfg.allowed_tasks
                       ELSE cfg.allowed_events, req.id)

\* the handler of a request calls authenticate on the worker: the Auth
\* request is on the writer's channel and the handler is suspended
AwaitAuthenticate(req) ==
    /\ Asks(config, req) /\ config.delegate_auth
    /\ flight = NoFlight
    /\ flight' = [of |-> "http", req |-> req, stage |-> "auth",
                  auth |-> FALSE, written |-> FALSE]
    /\ UNCHANGED <<config, tasks, events, reg, rcall, http>>
    /\ UNCHANGED <<cvars, lvars, nvars>>

\* the handler awaits the bytes of the body (to_bytes): first thing when
\* the authentication is not delegated, else out of the suspension of
\* authenticate on its positive answer auth, delivered whether the Auth
\* envelope is written or not
AwaitBody(req, auth) ==
    /\ Asks(config, req)
    /\ DelegatedAuth(config, auth).res.ok
    /\ flight = IF config.delegate_auth
                THEN [of |-> "http", req |-> req, stage |-> "auth",
                      auth |-> auth.written, written |-> FALSE]
                ELSE NoFlight
    /\ flight' = [of |-> "http", req |-> req, stage |-> "body",
                  auth |-> flight.auth, written |-> FALSE]
    /\ UNCHANGED <<config, tasks, events, reg, rcall, http>>
    /\ UNCHANGED <<cvars, lvars, nvars>>

\* the handler, with the body read and parsed and the id let through, calls
\* execute_task / emit_event on the worker and is suspended there
AwaitWorker(req, auth) ==
    /\ Forwards(config, req, auth)
    /\ flight = [of |-> "http", req |-> req, stage |-> "body",
                 auth |-> config.delegate_auth /\ auth.written,
                 written |-> FALSE]
    /\ flight' = [flight EXCEPT !.stage = "call"]
    /\ UNCHANGED <<config, tasks, events, reg, rcall, http>>
    /\ UNCHANGED <<cvars, lvars, nvars>>

\* one HTTP request is answered; auth and ans are what the calls on the
\* worker come to (NoAnswer for a call that is not made), written in each
\* telling whether its envelope is on stdin when the answer is given. A
\* request that does not get to a handler of the IPC application, or whose
\* authenticate fails in its send, is answered at once; any other out of
\* the suspension it is in: the call on the worker when its answer comes or
\* its sender is dropped, the read of the body when the body or the id is
\* turned away or the send of the call fails, authenticate when its answer
\* is not positive. The writer takes the request of the call from its
\* channel, and puts its sender into the table, only when the Auth record
\* sent before it is wholly written: until then a response with the id of
\* the call finds no entry and is discarded, the request staying suspended
HttpRequest(req, auth, ans) ==
    /\ LET authed == Asks(config, req) /\ config.delegate_auth
           passed == Asks(config, req) /\ DelegatedAuth(config, auth).res.ok
           called == Forwards(config, req, auth)
           here == [of |-> "http", req |-> req, stage |-> "auth",
                    auth |-> authed /\ auth.written, written |-> FALSE]
       IN /\ auth = NoAnswer <=> ~authed
          /\ ans = NoAnswer <=> ~called
          /\ (called /\ authed /\ ans.st = "resp") => auth.written
          /\ flight =
                IF called /\ ans.st # "closed"
                THEN [here EXCEPT !.stage = "call", !.written = ans.written]
                ELSE IF passed THEN [here EXCEPT !.stage = "body"]
                ELSE IF authed /\ auth.st # "closed" THEN here
                ELSE NoFlight
    /\ LET o == Serve(config, tasks, events, req, auth, ans)
       IN http' = [req |-> req, resp |-> o.resp, calls |-> o.calls,
                   envelopes |-> o.envelopes]
    /\ flight' = NoFlight
    /\ UNCHANGED <<config, tasks, events, reg, rcall>>
    /\ UNCHANGED <<cvars, lvars, nvars>>

\* what a call to the worker can come to for a request: NoAnswer when the
\* call is not made (the local application makes none, authenticate
\* ("auth") is called only when it is delegated); the response to
\* authenticate carries no result, and execute_task / emit_event ("call")
\* can come to any answer
AnswersFor(cfg, call) ==
    {NoAnswer} \cup
        IF cfg.app # "ipc" THEN {}
        ELSE IF call = "call" THEN WorkerAnswers
        ELSE IF cfg.delegate_auth THEN {a \in WorkerAnswers : a.result = NoValue}
        ELSE {}
\* a behaviour follows one call, on the registry or over HTTP: neither
\* changes what the registry or the router holds, so that a second call
\* would be served from the same state
Idle == rcall = NoCall /\ http = NoHttp
\* the requests a client can have sent: any while nothing is suspended, the
\* suspended one else
Pending ==
    IF ~Idle \/ flight.of = "worker" THEN {}
    ELSE IF flight.of = "http" THEN {flight.req}
    ELSE Requests
\* the ids the embedding program can call on the registry
Callable == IF Idle THEN Ids ELSE {}
\* the registrations the embedding program can make: the registry is moved
\* into the router by create_tunnel_app, so that they precede the requests
Registrable == IF Idle /\ reg.n < MaxReg THEN Ids ELSE {}

DispatchNext ==
    \/ \E id \in Registrable, h \in Handlers : RegisterTask(id, h)
    \/ \E id \in Registrable, h \in Handlers : RegisterEvent(id, h)
    \/ \E id \in Callable, x \in Inputs : RegistryExecute(id, x)
    \/ \E id \in Callable, x \in Inputs : RegistryEmit(id, x)
    \/ \E route \in {"task", "event"}, id \in Callable, x \in Inputs :
          CallAwaits(route, id, x)
    \/ EnvelopeWritten
    \/ \E id \in Callable, x \in Inputs, ans \in WorkerAnswers :
          WorkerCallTask(id, x, ans)
    \/ \E id \in Callable, x \in Inputs, ans \in WorkerAnswers :
          WorkerCallEvent(id, x, ans)
    \/ \E e \in TunnelErrors : IntoResponseCall(e)
    \/ \E req \in Pending : AwaitAuthenticate(req)
    \/ \E req \in Pending, auth \in AnswersFor(config, "auth") : AwaitBody(req, auth)
    \/ \E req \in Pending, auth \in AnswersFor(config, "auth") : AwaitWorker(req, auth)
    \/ \E req \in Pending, auth \in AnswersFor(config, "auth"),
           ans \in AnswersFor(config, "call") :
          HttpRequest(req, auth, ans)

DispatchSpec == DispatchInit /\ [][DispatchNext]_vars

\* ====================================================== tokio RwLock
\* read().await / write().await is polled: the acquisition joins the waiters
LockEnqueue(l, t, mode) ==
    [l EXCEPT !.waiters = Append(@, [t |-> t, mode |-> mode])]

\* (variant: a read guard is handed out while the write guard is held)
CanRead_WhileWritten(l) == TRUE

\* a read guard can be handed out: nobody holds the write guard
CanRead(l) == l.writer = 0

\* (variant: the write guard is handed out while read guards are held)
CanWrite_WhileRead(l) == l.writer = 0

\* the write guard can be handed out: nobody holds any guard
CanWrite(l) == l.writer = 0 /\ l.readers = {}

\* the oldest waiter can be served (the lock is fair: no waiter overtakes)
LockReady(l) ==
    /\ l.waiters # <<>>
    /\ IF Head(l.waiters).mode = "read" THEN CanRead(l) ELSE CanWrite(l)
\* the oldest waiter gets its guard
LockGrant(l) ==
    LET w == Head(l.waiters)
    IN IF w.mode = "read"
       THEN [l EXCEPT !.readers = @ \cup {w.t}, !.waiters = Tail(@)]
       ELSE [l EXCEPT !.writer = w.t, !.waiters = Tail(@)]

\* ==================================== task_registry.rs, called concurrently
\* (the events map has a lock of its own and the same code)
\* execute_task, up to self.tasks.read() (callers are interchangeable: they
\* are numbered in the order of their calls)
CallExecuteTask(t, id) ==
    /\ tk[t].pc = "idle"
    /\ \A d \in Tasks : d < t => tk[d].pc # "idle"
    /\ tk' = [tk EXCEPT ![t] = [@ EXCEPT !.pc = "acquire", !.op = "execute",
                                         !.id = id]]
    /\ rw' = LockEnqueue(rw, t, "read")
    /\ UNCHANGED <<rmap, rhist>>
    /\ UNCHANGED <<cvars, dvars, nvars>>

\* register_task, up to self.tasks.write(); the callers whose handler is
\* running (they found it and hold their guard) are noted
CallRegisterTask(t, id, h) ==
    /\ tk[t].pc = "idle"
    /\ \A d \in Tasks : d < t => tk[d].pc # "idle"
    /\ tk' = [tk EXCEPT ![t] = [@ EXCEPT !.pc = "acquire", !.op = "register",
                                         !.id = id, !.h = h]]
    /\ rw' = LockEnqueue(rw, t, "write")
    /\ rhist' = [rhist EXCEPT !.before[t] =
                    {r \in rw.readers : tk[r].found # NoHandler}]
    /\ UNCHANGED rmap
    /\ UNCHANGED <<cvars, dvars, nvars>>

\* the .await on read() or write() resolves: t gets its guard
LockAcquired(t) ==
    /\ tk[t].pc = "acquire"
    /\ LockReady(rw)
    /\ Head(rw.waiters).t = t
    /\ rw' = LockGrant(rw)
    /\ tk' = [tk EXCEPT ![t].pc =
                IF Head(rw.waiters).mode = "read" THEN "lookup" ELSE "insert"]
    /\ UNCHANGED <<rmap, rhist>>
    /\ UNCHANGED <<cvars, dvars, nvars>>

\* tasks.get(id).ok_or_else(|| NotFound)?: the guard is dropped on the early
\* return, and kept when a handler was found (the handler is borrowed from
\* it); a slot read while an insert rewrites it yields no handler at all
Lookup(t) ==
    /\ tk[t].pc = "lookup"
    /\ LET h == rmap[tk[t].id]
       IN IF h \in {NoHandler, Torn}
          THEN /\ tk' = [tk EXCEPT ![t] =
                     [@ EXCEPT !.pc = "done",
                               !.res = IF h = Torn THEN "torn" ELSE "NotFound"]]
               /\ rw' = [rw EXCEPT !.readers = @ \ {t}]
          ELSE /\ tk' = [tk EXCEPT ![t] = [@ EXCEPT !.pc = "handler", !.found = h]]
               /\ rw' = rw
    /\ UNCHANGED <<rmap, rhist>>
    /\ UNCHANGED <<cvars, dvars, nvars>>

\* handler.execute(input).await returns, and execute_task with it: the read
\* guard is dropped at the end of the function
HandlerReturns(t) ==
    /\ \/ tk[t].pc = "handler" /\ tk[t].found # Registering
       \/ tk[t].pc = "returning"
    /\ tk' = [tk EXCEPT ![t] = [@ EXCEPT !.pc = "done", !.res = "ran"]]
    /\ rw' = [rw EXCEPT !.readers = @ \ {t}]
    /\ UNCHANGED <<rmap, rhist>>
    /\ UNCHANGED <<cvars, dvars, nvars>>

\* the handler's body calls register_task on the same registry: it awaits
\* the write guard while execute_task holds the read guard
HandlerRegisters(t) ==
    /\ tk[t].pc = "handler"
    /\ tk[t].found = Registering
    /\ tk' = [tk EXCEPT ![t] = [@ EXCEPT !.pc = "acquire", !.nested = TRUE,
                                         !.h = [fn |-> "zero", err |-> NoError]]]
    /\ rw' = LockEnqueue(rw, t, "write")
    /\ rhist' = [rhist EXCEPT !.before[t] =
                    {r \in rw.readers : tk[r].found # NoHandler}]
    /\ UNCHANGED rmap
    /\ UNCHANGED <<cvars, dvars, nvars>>

\* tasks.insert(id, handler) under the write guard: the table is rewritten
\* in place, and is not a consistent map until insert returns
InsertBegin(t) ==
    /\ tk[t].pc = "insert"
    /\ rmap' = [rmap EXCEPT ![tk[t].id] = Torn]
    /\ tk' = [tk EXCEPT ![t].pc = "inserting"]
    /\ UNCHANGED <<rw, rhist>>
    /\ UNCHANGED <<cvars, dvars, nvars>>

\* insert returns and register_task with it: the write guard is dropped
InsertEnd(t) ==
    /\ tk[t].pc = "inserting"
    /\ rmap' = [rmap EXCEPT ![tk[t].id] = tk[t].h]
    /\ rw' = [rw EXCEPT !.writer = 0]
    /\ rhist' = [rhist EXCEPT !.everReg[tk[t].id] = @ \cup {tk[t].h}]
    /\ tk' = [tk EXCEPT ![t] =
                IF @.nested THEN [@ EXCEPT !.pc = "returning"]
                ELSE [@ EXCEPT !.pc = "done", !.res = "registered"]]
    /\ UNCHANGED <<cvars, dvars, nvars>>

RegistryNext ==
    \/ \E t \in Tasks, id \in Ids : CallExecuteTask(t, id)
    \/ \E t \in Tasks, id \in Ids, h \in {[fn |-> "inc", err |-> NoError], Registering} :
          CallRegisterTask(t, id, h)
    \/ \E t \in Tasks : LockAcquired(t)
    \/ \E t \in Tasks : Lookup(t)
    \/ \E t \in Tasks : HandlerReturns(t)
    \/ \E t \in Tasks : HandlerRegisters(t)
    \/ \E t \in Tasks : InsertBegin(t)
    \/ \E t \in Tasks : InsertEnd(t)

RegistrySpec == Init /\ [][RegistryNext]_vars

\* ================================================ runner-native/src/lib.rs
\* a request for id of a namespace arrives: handle_task / handle_event up to
\* read() on the map of the namespace (requests are numbered in the order
\* of their arrival)
AddonRequest(r, ns, id) ==
    /\ nreq[r].pc = "idle"
    /\ \A d \in HttpRequests : d < r => nreq[d].pc # "idle"
    /\ nreq' = [nreq EXCEPT ![r] = [@ EXCEPT !.pc = "acquire", !.ns = ns,
                                            !.id = id]]
    /\ nlock' = [nlock EXCEPT ![ns] = LockEnqueue(@, r, "read")]
    /\ UNCHANGED <<nmap, js>>
    /\ UNCHANGED <<cvars, dvars, lvars>>

\* tasks.read().await / events.read().await resolves
RequestAcquired(r) ==
    /\ nreq[r].pc = "acquire"
    /\ LockReady(nlock[nreq[r].ns])
    /\ Head(nlock[nreq[r].ns].waiters).t = r
    /\ nlock' = [nlock EXCEPT ![nreq[r].ns] = LockGrant(@)]
    /\ nreq' = [nreq EXCEPT ![r].pc = "lookup"]
    /\ UNCHANGED <<nmap, js>>
    /\ UNCHANGED <<cvars, dvars, lvars>>

\* get(&id) on the guard: 404 and the guard is dropped, or
\* handler.call_async(...): the call is queued for the JavaScript thread
\* and awaited, the guard being held
AddonLookup(r) ==
    /\ nreq[r].pc = "lookup"
    /\ IF nreq[r].id \notin nmap[nreq[r].ns]
       THEN /\ nreq' = [nreq EXCEPT ![r] = [@ EXCEPT !.pc = "done", !.status = 404]]
            /\ nlock' = [nlock EXCEPT ![nreq[r].ns].readers = @ \ {r}]
            /\ js' = js
       ELSE /\ nreq' = [nreq EXCEPT ![r].pc = "called"]
            /\ js' = [js EXCEPT !.calls = Append(@, r)]
            /\ nlock' = nlock
    /\ UNCHANGED nmap
    /\ UNCHANGED <<cvars, dvars, lvars>>

\* the JavaScript thread, in its event loop, takes a queued call and enters
\* its handler. Each thread-safe function (one per registered id of a
\* namespace) has a queue of its own, served oldest first; which function
\* is served next is the event loop's choice
JsRunsHandler(r) ==
    /\ js.pc = "loop"
    /\ \E i \in DOMAIN js.calls :
          /\ js.calls[i] = r
          /\ \A j \in 1..(i - 1) :
                <<nreq[js.calls[j]].ns, nreq[js.calls[j]].id>>
                    # <<nreq[r].ns, nreq[r].id>>
    /\ js' = [js EXCEPT !.pc = "handler", !.run = r,
                        !.calls = SelectSeq(@, LAMBDA c : c # r)]
    /\ UNCHANGED <<nlock, nmap, nreq>>
    /\ UNCHANGED <<cvars, dvars, lvars>>

\* the handler returns or throws, call_async resolves with that, and the
\* JavaScript thread is back in its event loop
JsHandlerReturns(status) ==
    /\ js.pc = "handler"
    /\ nreq' = [nreq EXCEPT ![js.run] = [@ EXCEPT !.pc = "resolved",
                                                 !.status = status]]
    /\ js' = [js EXCEPT !.pc = "loop", !.run = 0]
    /\ UNCHANGED <<nlock, nmap>>
    /\ UNCHANGED <<cvars, dvars, lvars>>

\* handle_task / handle_event returns the envelope: the guard is dropped
AddonRespond(r) ==
    /\ nreq[r].pc = "resolved"
    /\ nreq' = [nreq EXCEPT ![r].pc = "done"]
    /\ nlock' = [nlock EXCEPT ![nreq[r].ns].readers = @ \ {r}]
    /\ UNCHANGED <<nmap, js>>
    /\ UNCHANGED <<cvars, dvars, lvars>>

\* registerTask (ns = "task") or registerEvent (ns = "event") called by the
\* JavaScript program, from the event loop or from inside a handler: a
\* thread is spawned that awaits write() on the map of the namespace, and
\* the JavaScript thread joins it
JsRegister(ns, id) ==
    /\ js.pc \in {"loop", "handler"}
    /\ js.n < MaxJsReg
    /\ js' = [js EXCEPT !.pc = "join", !.reg = "acquire", !.ns = ns,
                        !.id = id, !.n = @ + 1]
    /\ nlock' = [nlock EXCEPT ![ns] = LockEnqueue(@, MaxHttp + 1, "write")]
    /\ UNCHANGED <<nmap, nreq>>
    /\ UNCHANGED <<cvars, dvars, lvars>>

\* write().await resolves in the spawned thread
RegisterAcquired ==
    /\ js.reg = "acquire"
    /\ LockReady(nlock[js.ns])
    /\ Head(nlock[js.ns].waiters).t = MaxHttp + 1
    /\ nlock' = [nlock EXCEPT ![js.ns] = LockGrant(@)]
    /\ js' = [js EXCEPT !.reg = "insert"]
    /\ UNCHANGED <<nmap, nreq>>
    /\ UNCHANGED <<cvars, dvars, lvars>>

\* insert(...) in the spawned thread; the write guard is dropped and the
\* thread ends
RegisterInsert ==
    /\ js.reg = "insert"
    /\ nmap' = [nmap EXCEPT ![js.ns] = @ \cup {js.id}]
    /\ nlock' = [nlock EXCEPT ![js.ns].writer = 0]
    /\ js' = [js EXCEPT !.reg = "ended"]
    /\ UNCHANGED nreq
    /\ UNCHANGED <<cvars, dvars, lvars>>

\* join returns on the JavaScript thread and registerTask / registerEvent
\* with it, to the event loop or to the handler that called it
RegisterReturns ==
    /\ js.reg = "ended"
    /\ js' = [js EXCEPT !.reg = "none",
                        !.pc = IF js.run = 0 THEN "loop" ELSE "handler"]
    /\ UNCHANGED <<nlock, nmap, nreq>>
    /\ UNCHANGED <<cvars, dvars, lvars>>

AddonNext ==
    \/ \E r \in HttpRequests, ns \in {"task", "event"}, id \in Ids :
          AddonRequest(r, ns, id)
    \/ \E r \in HttpRequests : RequestAcquired(r)
    \/ \E r \in HttpRequests : AddonLookup(r)
    \/ \E r \in HttpRequests : JsRunsHandler(r)
    \/ \E status \in {200, 500} : JsHandlerReturns(status)
    \/ \E r \in HttpRequests : AddonRespond(r)
    \/ \E ns \in {"task", "event"}, id \in Ids : JsRegister(ns, id)
    \/ RegisterAcquired
    \/ RegisterInsert
    \/ RegisterReturns

\* the tokio runtime polls every task that can go on, the spawned thread
\* runs, the JavaScript thread serves its queues whenever it is in its
\* event loop and returns from join when the thread has ended, and a
\* handler that is not held in a registration comes to its end
AddonFairSpec ==
    /\ Init
    /\ [][AddonNext]_vars
    /\ \A r \in HttpRequests :
          /\ WF_vars(RequestAcquired(r))
          /\ WF_vars(AddonLookup(r))
          /\ WF_vars(AddonRespond(r))
    /\ WF_vars(\E r \in HttpRequests : JsRunsHandler(r))
    /\ WF_vars(\E status \in {200, 500} : JsHandlerReturns(status))
    /\ WF_vars(RegisterAcquired)
    /\ WF_vars(RegisterInsert)
    /\ WF_vars(RegisterReturns)

\* ================================================================ properties
\* callers that hold a correlation id
Allocated == {c \in Callers : cpc[c] # "idle"}
\* the lines the reader may read in this step
NextLines == Lines(lineCount + 1)

\* C6: any two requests issued through the NodeWorker, tasks or events, hold
\* distinct correlation ids; the ids handed out are 1, 2, 3, ... in order, the
\* counter standing one above the last id allocated
C6_DistinctIds ==
    /\ \A c, d \in Allocated : c # d => cid[c] # cid[d]
    /\ {cid[c] : c \in Allocated} = 1..(request_id - 1)
    /\ request_id = Cardinality(Allocated) + 1
    /\ \A c \in Allocated : \A d \in Allocated : c < d => cid[c] < cid[d]

\* a task and an event are outstanding together, each with its own id
C6_Witness ==
    /\ cpc[1] = "waiting" /\ cpc[2] = "waiting"
    /\ Kind(1) = "task" /\ Kind(2) = "event"
    /\ cid[1] = 1 /\ cid[2] = 2
    /\ request_id = 3

\* C1: a caller that is completed with a worker response holds the response
\* whose id is the id of its own request, whatever the order of the lines
C1_Correlation ==
    \A c \in Callers :
        /\ chan[c].st = "sent" => chan[c].val.id = cid[c]
        /\ cres[c].n # 0 => cres[c].id = cid[c]

\* two callers returned, the second request having been answered first
C1_Witness ==
    /\ cpc[1] = "done" /\ cpc[2] = "done"
    /\ cres[1].n = 2 /\ cres[2].n = 1
    /\ cres[1].id = 1 /\ cres[2].id = 2

\* the line answers an id that has no entry in the table
Unmatched(line) ==
    /\ IsResponse(line)
    /\ PendingGet(pending_responses, line.id) = {}

C3_Counts ==
    /\ \A c \in Callers : hist.completions[c] <= 1
    /\ \A n \in 1..MaxLines : hist.deliveries[n] <= 1
C3_Discard ==
    \A line \in NextLines :
        (ReaderLine(line) /\ Unmatched(line)) =>
            /\ pending_responses' = pending_responses
            /\ chan' = chan
            /\ cres' = cres
            /\ rpc' = "running"

\* C3: whatever lines are read (repeated ids, ids never issued), a waiting
\* caller is completed at most once and a line goes to at most one caller; a
\* response whose id has no entry changes neither the table nor any caller
\* and leaves the reader running
C3_AtMostOnce == []C3_Counts /\ [][C3_Discard]_vars

\* line 1 answered request 1; line 2 was decoded and read while request 2
\* was in the table: it matched no entry (it repeats id 1, or carries an id
\* never issued) and was discarded
C3_Witness ==
    /\ chan[1].st = "sent" /\ chan[1].val.n = 1
    /\ lineCount = 2
    /\ ~hist.skipped /\ hist.deliveries[2] = 0
    /\ 2 \in Senders(pending_responses) /\ chan[2].st = "open"
    /\ hist.completions[1] = 1
    /\ rpc = "running"

C5_Table ==
    /\ \A e, f \in pending_responses : e.id = f.id => e = f
    /\ hist.overwritten = {}
    /\ \A c \in Callers :
        /\ hist.inserts[c] <= 1
        /\ hist.removes[c] <= hist.inserts[c]
        /\ (c \in Senders(pending_responses))
              <=> (hist.inserts[c] = 1 /\ hist.removes[c] = 0)
    /\ hist.tornDown => pending_responses = {}
C5_Removal ==
    \A e \in pending_responses \ pending_responses' :
        \/ \E line \in NextLines :
              ReaderLine(line) /\ IsResponse(line) /\ line.id = e.id
        \/ MapDropped(wpc', rpc') /\ ~MapDropped(wpc, rpc) /\ pending_responses' = {}

\* the channel has terminated (the worker has exited and the reader has met
\* the end of its stdout): the entries left in the table are removed and the
\* table is empty
C5_Cleanup == (workerExited /\ rpc = "stopped") ~> (pending_responses = {})

\* C5: the pending table never holds two entries for one id and no insert
\* replaces an entry; every entry inserted is removed exactly once, by the
\* reader for a response with its id or by the teardown cleanup when the
\* channel terminates, after which the table is empty
C5_PendingTable == []C5_Table /\ [][C5_Removal]_vars /\ C5_Cleanup

\* the whole record of request id has been written
Written(id) == id \in hist.written

\* a chunk is written in this step
Writes == stdin'.len = stdin.len + 1

C7_Chunk ==
    Writes =>
        /\ stdin'.part = "json" => stdin.part \in {"none", "nl"}
        /\ stdin'.part = "nl" => (stdin.part = "json" /\ stdin.id = stdin'.id)
        /\ stdin'.part \in {"json", "nl"}
C7_Tail ==
    /\ stdin.part = "json" =>
          \/ wpc = "nl" /\ wcur.id = stdin.id
          \/ wpc = "stopped" /\ hist.writeFailed
    /\ wpc \in {"recv", "json"} => stdin.part \in {"none", "nl"}
    /\ Cardinality(hist.written) = stdin.len \div 2

\* C7: the stream written to the worker's stdin is a sequence of whole
\* records (json, newline) of single requests, never interleaved: a json is
\* written only after the newline of the record before it, a newline only
\* after the json of the same request; only the last record can be
\* unfinished, while the writer is writing it or after the write that would
\* have finished it failed
C7_RecordsNotInterleaved == []C7_Tail /\ [][C7_Chunk]_vars

\* two callers were queued together, the second one first: two whole records
C7_Witness ==
    /\ stdin = [len |-> 4, id |-> 1, part |-> "nl", full |-> FALSE]
    /\ hist.written = {1, 2}
    /\ wpc = "recv"

C9_Step ==
    \A line \in NextLines :
        /\ (ReaderLine(line) /\ ~IsResponse(line)) =>
              /\ pending_responses' = pending_responses
              /\ chan' = chan
              /\ cres' = cres
              /\ rpc' = "running"
        /\ (ReaderLine(line) /\ IsResponse(line) /\ hist.skipped) =>
              \A e \in PendingGet(pending_responses, line.id) :
                  cpc[e.tx] = "waiting" =>
                      chan'[e.tx] = [st |-> "sent", val |-> line]

\* C9: a line that cannot be read or decoded changes neither the table nor
\* any caller and leaves the reader running; a response read after it is
\* delivered to the caller waiting for its id
C9_MalformedDropped == [][C9_Step]_vars

\* line 1 was skipped, line 2 was delivered and its caller returned with it
C9_Witness ==
    /\ hist.skipped
    /\ lineCount = 2
    /\ hist.deliveries[1] = 0 /\ hist.deliveries[2] = 1
    /\ \E c \in Callers : cpc[c] = "done" /\ cres[c].n = 2 /\ cres[c].id = cid[c]
    /\ rpc = "running"

\* the request of caller c is on its way to the worker or has reached it
OnItsWay(c) ==
    \/ \E i \in 1..Len(queue) : queue[i].tx = c
    \/ wcur.tx = c
    \/ Written(cid[c])
C10_Sent ==
    \A c \in Callers : cpc[c] = "abandoned" => (OnItsWay(c) \/ stdinBroken)
C10_Step ==
    \A line \in NextLines :
        (ReaderLine(line) /\ IsResponse(line)
            /\ \E e \in PendingGet(pending_responses, line.id) :
                  cpc[e.tx] = "abandoned") =>
            /\ PendingGet(pending_responses', line.id) = {}
            /\ chan' = chan
            /\ cres' = cres
            /\ rpc' = "running"

\* C10: the request of a caller that gave up waiting still goes to the worker
\* (unless the worker no longer reads its stdin), and the response with its
\* id takes its entry out of the table and is discarded, the reader running on
C10_AbandonedDiscarded == []C10_Sent /\ [][C10_Step]_vars

\* the request of an abandoned caller was written and inserted, and its
\* response was read afterwards (the send reached no receiver): the entry is
\* gone, taken by the reader, which still runs
C10_Witness ==
    \E c \in Callers :
        /\ cpc[c] = "abandoned"
        /\ Written(cid[c])
        /\ hist.inserts[c] = 1 /\ hist.removes[c] = 1
        /\ c \notin Senders(pending_responses)
        /\ hist.completions[c] = 0 /\ ~hist.tornDown
        /\ chan[c].st = "gone"
        /\ rpc = "running"

\* C2: when the worker has exited and the reader has met the end of its
\* stdout, every caller still waiting eventually returns an InternalError
\* (or stops waiting), also when no other request is ever issued
C2_CrashReleasesCallers ==
    \A c \in Callers :
        (workerExited /\ rpc = "stopped" /\ cpc[c] = "waiting" /\ chan[c].st = "open")
            ~> (cpc[c] = "abandoned" \/ (cpc[c] = "done" /\ cres[c].st = "err"))

\* caller c's send_request reaches stdin_tx.send in this step
Sends(c) == cpc[c] = "alloc" /\ cpc'[c] # "alloc"

\* C4: once the reader has met the end of the worker's stdout, a call that
\* reaches send_request fails at once with InternalError: it is not queued
\* for the writer and it does not wait
C4_FailFastAfterTermination ==
    [][\A c \in Callers :
          (rpc = "stopped" /\ Sends(c)) =>
              /\ cpc'[c] = "done"
              /\ cres'[c].st = "err"
              /\ queue' = queue]_vars

C8_Later ==
    \A c \in Callers :
        (hist.writeFailed /\ ~workerExited /\ Sends(c)) =>
            (cpc'[c] = "waiting" /\ queue' = Append(queue, [id |-> cid[c], tx |-> c]))
C8_Queued ==
    (wpc # "stopped" /\ wpc' = "stopped" /\ hist'.writeFailed /\ ~workerExited') =>
        \A i \in 1..Len(queue) : chan'[queue[i].tx].st # "closed"
C8_Earlier ==
    \A line \in NextLines :
        (ReaderLine(line) /\ hist.writeFailed /\ ~workerExited
            /\ IsResponse(line)) =>
            \A e \in PendingGet(pending_responses, line.id) :
                cpc[e.tx] = "waiting" =>
                    chan'[e.tx] = [st |-> "sent", val |-> line]

\* C8: while the worker has not exited, a failed write touches only the
\* request being written: requests written before still get the response
\* with their id, requests queued behind it are not dropped, and requests
\* issued after it are not turned away
C8_WriteFailureIsolated == [][C8_Later /\ C8_Queued /\ C8_Earlier]_vars

\* the writer never waits for anything but its queue: between two records it
\* takes the next queued request whatever the table holds, and in a record
\* it can write as soon as the pipe has room
C11_WriterFree ==
    /\ (queue # <<>> /\ wpc \notin {"json", "nl", "stopped"}) => ENABLED WriterRecv
    /\ (wpc \in {"json", "nl"} /\ ~stdin.full) => ENABLED WriterWrite
    /\ \A c \in Callers :
          (cpc[c] = "waiting" /\ chan[c].st = "sent") => ENABLED AwaitResponse(c)
\* a response read for the id of a waiting caller completes that caller,
\* whatever other entries are in the table, and touches no other caller
C11_OwnEntry ==
    \A line \in NextLines :
        (ReaderLine(line) /\ IsResponse(line)) =>
            \A e \in PendingGet(pending_responses, line.id) :
                /\ cpc[e.tx] = "waiting" =>
                      chan'[e.tx] = [st |-> "sent", val |-> line]
                /\ \A d \in Callers \ {e.tx} : chan'[d] = chan[d]

\* C11: the writer does not wait for the response to a request before it
\* writes the next one: requests written one after the other are in the
\* pending table together, and each caller is released by the response with
\* its own id alone
C11_NoWaitForResponse == []C11_WriterFree /\ [][C11_OwnEntry]_vars

\* both requests have been written and no line has been read yet: the two
\* entries are in the table together, each caller waiting on its own
C11_Witness ==
    /\ Written(1) /\ Written(2)
    /\ lineCount = 0
    /\ Senders(pending_responses) = {1, 2}
    /\ \A c \in {1, 2} : cpc[c] = "waiting" /\ chan[c].st = "open"
    /\ wpc = "recv"

\* ------------------------------------------------ dispatch layer: claims
\* an HTTP request is served in this step
Serves == http = NoHttp /\ http' # NoHttp
\* the request passes the token layer and, where it is delegated, the
\* worker's authentication
PassesAuth(req, auth) ==
    /\ req.method = "OPTIONS" \/ ValidateAuth(req.token, config).ok
    /\ config.app = "ipc" => DelegatedAuth(config, auth).res.ok
\* the request gets as far as the allow-list check of its handler
ReachesAllowList(req, auth) ==
    /\ req.route \in {"task", "event"}
    /\ req.method = "POST"
    /\ PassesAuth(req, auth)
    /\ ~BodyRejected(config, req.body)
\* the id of the request is permitted by the allow-list the gateway
\* publishes, read as AllowList::contains_task / contains_event read it
Listed(req) ==
    LET al == DiscoveryAllowList(config)
    IN Contains(al.enabled,
                IF req.route = "task" THEN al.tasks ELSE al.events, req.id)
\* what was served was turned away by the allow-list check: Forbidden, with
\* no handler invoked and no task or event envelope written
RejectedByCheck(h) ==
    /\ h.resp = IntoResponse(Forbidden)
    /\ h.calls = <<>>
    /\ \A i \in 1..Len(h.envelopes) : h.envelopes[i] \notin {"task", "event"}

C12_Gate ==
    Serves =>
        \A auth \in AnswersFor(config, "auth"),
           ans \in AnswersFor(config, "call") :
            (HttpRequest(http'.req, auth, ans)
                /\ ReachesAllowList(http'.req, auth)) =>
                (Listed(http'.req) <=> ~RejectedByCheck(http'))

\* C12: a task or event request passes the allow-list check when the
\* allow-list is not enabled, and when it is enabled passes if its id is in
\* the list of its kind and fails with Forbidden otherwise
C12_AllowListGate == [][C12_Gate]_vars

\* the request carries the configured header with the configured token
HeaderMatches(req) == req.token = config.auth_token
\* a non-OPTIONS request was served by a router whose configuration does
\* not delegate authentication
ServedUndelegated ==
    http # NoHttp /\ ~config.delegate_auth /\ http.req.method # "OPTIONS"
\* the half of C13 about requests without the token
C13_Rejects ==
    (ServedUndelegated /\ ~HeaderMatches(http.req)) =>
        http.resp = IntoResponse(Unauthorized)

\* C13: when authentication is not delegated, a non-OPTIONS request to a
\* task, event or discovery route is answered Unauthorized if the configured
\* header is absent or differs from the token, and is never answered
\* Unauthorized if it carries the token
C13_TokenCheck ==
    ServedUndelegated =>
        IF HeaderMatches(http.req)
        THEN http.resp.codeName # "UNAUTHORIZED" /\ http.resp.status # 401
        ELSE http.resp = IntoResponse(Unauthorized)

\* C14: a request answered with Unauthorized or Forbidden has reached
\* neither the registry nor the worker channel: no handler was invoked for
\* it and no envelope of any kind was written to the worker, in the local
\* application and in the worker (ipc) application
C14_RefusedReachesNothing ==
    (http # NoHttp /\ http.resp.codeName \in {"UNAUTHORIZED", "FORBIDDEN"}) =>
        (http.calls = <<>> /\ http.envelopes = <<>>)

\* the same for the worker application alone
C14_Ipc == config.app = "ipc" => C14_RefusedReachesNothing
\* and for the local application alone
C14_Local == config.app = "local" => C14_RefusedReachesNothing

C15_Step ==
    Serves =>
        \A auth \in AnswersFor(config, "auth"),
           ans \in AnswersFor(config, "call") :
            (HttpRequest(http'.req, auth, ans)
                /\ config.app = "ipc" /\ config.delegate_auth
                /\ http'.req.route \in {"task", "event"}
                /\ http'.req.method = "POST"
                /\ http'.req.token = "absent") =>
                /\ auth.written =>
                      (http'.envelopes # <<>> /\ Head(http'.envelopes) = "auth")
                /\ http'.resp.codeName = "UNAUTHORIZED" =>
                      (auth.st = "resp" /\ ~auth.ok)

\* C15: with delegate_auth = true the dispatch layer makes no token check
\* of its own: a task or event request without the token header goes to the
\* worker as an Auth envelope, and it is answered Unauthorized only when the
\* worker's answer is negative
C15_DelegatedAuth == [][C15_Step]_vars

\* the handler of the most recent registration of id in a namespace
\* (NoHandler when there was none)
Latest(ns, id) == IF ns = "task" THEN reg.task[id] ELSE reg.event[id]
\* the registry was called by the embedding program in namespace ns
Called(ns) == rcall # NoCall /\ rcall.ns = ns

\* C16: after any sequence of registrations, execute_task(t, x) on a
\* registered id returns what the handler registered for t returns on x, that
\* handler and no other being invoked once; on an id never registered as a
\* task it fails with NotFound and no handler is invoked
C16_ExecuteTask ==
    Called("task") =>
        IF Latest("task", rcall.id) = NoHandler
        THEN rcall.res = Err(NotFound) /\ rcall.calls = <<>>
        ELSE /\ rcall.res = HandlerExecute(Latest("task", rcall.id), rcall.x)
             /\ rcall.calls =
                  <<Call("task", rcall.id, Latest("task", rcall.id), rcall.x)>>

\* task a was registered with the incrementing handler and called on 1: the
\* result is 2; task b was never registered
C16_Witness ==
    /\ Called("task") /\ rcall.id = "a" /\ rcall.x = 1
    /\ reg.task["a"].fn = "inc" /\ reg.task["b"] = NoHandler
    /\ rcall.res = Ok(2)
    /\ Len(rcall.calls) = 1

\* registrations are never refused
C17_NoError ==
    \A id \in Registrable, h \in Handlers :
        config.app = "local" =>
            (ENABLED RegisterTask(id, h) /\ ENABLED RegisterEvent(id, h))
\* the maps hold, for every id, the handler of its most recent registration
C17_LastWriter ==
    /\ \A id \in Ids : tasks[id] = reg.task[id] /\ events[id] = reg.event[id]
    /\ rcall # NoCall =>
          \A i \in 1..Len(rcall.calls) :
              /\ rcall.calls[i].h = Latest(rcall.ns, rcall.id)
              /\ rcall.calls[i].id = rcall.id
    /\ http # NoHttp =>
          \A i \in 1..Len(http.calls) :
              http.calls[i].h = Latest(http.calls[i].ns, http.calls[i].id)

\* C17: registering under an id already registered raises no error and
\* replaces the handler: a call that starts after the registrations invokes
\* the handler of the most recent registration of the id, never an earlier
\* one
C17_ReRegistration == C17_NoError /\ C17_LastWriter

\* task a was registered twice with different handlers, then called: the
\* handler invoked is the second one, the first one is gone
C17_Witness ==
    /\ Called("task") /\ rcall.id = "a"
    /\ \E r \in reg.replaced :
          /\ r.ns = "task" /\ r.id = "a"
          /\ r.h # reg.task["a"]
          /\ HandlerExecute(r.h, rcall.x) # rcall.res
    /\ Len(rcall.calls) = 1 /\ rcall.calls[1].h = reg.task["a"]
    /\ rcall.res = HandlerExecute(reg.task["a"], rcall.x)

\* what a call on the registry must come to, from the registrations of its
\* own namespace alone
OwnNamespace(ns) ==
    Called(ns) =>
        IF Latest(ns, rcall.id) = NoHandler
        THEN rcall.res = Err(NotFound) /\ rcall.calls = <<>>
        ELSE /\ rcall.calls # <<>>
             /\ rcall.calls[1].ns = ns
             /\ rcall.calls[1].h = Latest(ns, rcall.id)
\* a registration changes the map of its namespace only
C18_Frame ==
    /\ reg'.task # reg.task => events' = events
    /\ reg'.event # reg.event => tasks' = tasks

\* C18: tasks and events are separate namespaces: registering a task X
\* leaves the event map unchanged, emit_event(X) failing with NotFound unless
\* an event X was registered, and registering an event X changes nothing of
\* execute_task(X)
C18_Namespaces ==
    [](OwnNamespace("task") /\ OwnNamespace("event")) /\ [][C18_Frame]_vars

\* a task was registered under a, no event was: emit_event(a) is NotFound
C18_Witness ==
    /\ Called("event") /\ rcall.id = "a"
    /\ reg.task["a"] # NoHandler /\ reg.event["a"] = NoHandler
    /\ tasks["a"] # NoHandler
    /\ rcall.res = Err(NotFound) /\ rcall.calls = <<>>

\* C19: when the handler invoked by execute_task or emit_event fails, the
\* call returns the failure the handler produced, with the same variant and
\* the same message
C19_FailureUnchanged ==
    (rcall # NoCall /\ rcall.calls # <<>> /\ rcall.calls[1].h.fn = "fail") =>
        /\ ~rcall.res.ok
        /\ rcall.res.err.variant = rcall.calls[1].h.err.variant
        /\ rcall.res.err.msg = rcall.calls[1].h.err.msg

\* a task handler failed with InternalError("boom") and an execute_task
\* returned that error
C19_Witness ==
    /\ Called("task")
    /\ rcall.calls = <<Call("task", rcall.id, Fails(InternalError("boom")), rcall.x)>>
    /\ rcall.res = Err(InternalError("boom"))

\* C20: a failure returned by a handler of the local registry reaches the
\* HTTP caller as InternalError (500, INTERNAL_ERROR) with the handler's
\* message, whatever error the handler returned
C20_LocalFailureIsInternal ==
    (http # NoHttp /\ config.app = "local" /\ http.calls # <<>>
        /\ http.calls[1].h.fn = "fail") =>
        /\ http.resp.status = 500
        /\ http.resp.code = 500
        /\ http.resp.codeName = "INTERNAL_ERROR"
        /\ http.resp.message = http.calls[1].h.err.msg

\* a well-formed task or event POST with the valid token was served by the
\* local application and names an id that no registration gave a handler
UnregisteredServed ==
    /\ http # NoHttp /\ config.app = "local"
    /\ http.req.route \in {"task", "event"}
    /\ http.req.method = "POST"
    /\ http.req.token = config.auth_token
    /\ ~BodyRejected(config, http.req.body)
    /\ Latest(http.req.route, http.req.id) = NoHandler
\* the configured list of the request's kind
AllowedFor(req) ==
    IF req.route = "task" THEN config.allowed_tasks ELSE config.allowed_events

\* C21 as stated: a task or event request with a valid token that names an
\* id with no registered handler is answered NotFound (404, NOT_FOUND), for
\* every configuration of the allow-list
C21_NotFoundAnyAllowList ==
    UnregisteredServed =>
        /\ http.resp.status = 404
        /\ http.resp.codeName = "NOT_FOUND"

\* C21 as amended: such a request is answered NotFound (404, NOT_FOUND),
\* with no handler invoked, when the list of its kind is empty or holds the
\* id, and Forbidden when the list is not empty and omits the id
C21_NotFoundWhenPermitted ==
    UnregisteredServed =>
        /\ http.calls = <<>>
        /\ IF AllowedFor(http.req) = {} \/ http.req.id \in AllowedFor(http.req)
           THEN /\ http.resp.status = 404 /\ http.resp.code = 404
                /\ http.resp.codeName = "NOT_FOUND" /\ ~http.resp.ok
           ELSE http.resp = IntoResponse(Forbidden)

\* the task list holds a, task b was registered and a never was: the
\* request for a is answered 404
C21_Witness ==
    /\ UnregisteredServed
    /\ http.req.route = "task" /\ http.req.id = "a"
    /\ config.allowed_tasks = {"a"}
    /\ reg.task["b"] # NoHandler
    /\ http.resp.status = 404 /\ http.resp.codeName = "NOT_FOUND"

\* the worker answered the task or event call of a served request with
\* ok = false
WorkerRefused(h, ans) ==
    /\ h.envelopes # <<>>
    /\ h.envelopes[Len(h.envelopes)] \in {"task", "event"}
    /\ ans.st = "resp" /\ ~ans.ok
C22_Step ==
    Serves =>
        \A auth \in AnswersFor(config, "auth"),
           ans \in AnswersFor(config, "call") :
            (HttpRequest(http'.req, auth, ans) /\ WorkerRefused(http', ans)) =>
                IF ans.error # NoWorkerError
                THEN /\ http'.resp.code = ans.error.code
                     /\ http'.resp.codeName = ans.error.codeName
                     /\ ~http'.resp.ok
                ELSE /\ http'.resp.status = 500
                     /\ http'.resp.codeName = "INTERNAL_ERROR"

\* C22: when the worker answers a task or event with ok = false and its own
\* code and codeName, the error returned to the HTTP caller carries that
\* code and codeName; a failure without them is InternalError (500,
\* INTERNAL_ERROR)
C22_WorkerCodePassedThrough == [][C22_Step]_vars

\* a call on the NodeWorker returned on a response delivered to it
Delivered(ns) == Called(ns) /\ rcall.ans.st = "resp"
\* the message of the error a response with ok = false is turned into
RefusalMessage(ans) ==
    IF ans.error = NoWorkerError THEN "Unknown error" ELSE ans.error.message

\* C23: for every worker response delivered to a caller, with ok = true
\* execute_task returns the result, null when it is absent, and emit_event
\* returns success; with ok = false both return an error whose message is
\* error.message ("Unknown error" when error is absent), never a success
C23_ResponseTranslation ==
    /\ Delivered("worker.task") =>
          IF rcall.ans.ok
          THEN /\ rcall.res.ok
               /\ rcall.res.val =
                    (IF rcall.ans.result = NoValue THEN JsonNull
                     ELSE rcall.ans.result)
          ELSE /\ ~rcall.res.ok
               /\ rcall.res.err.msg = RefusalMessage(rcall.ans)
    /\ Delivered("worker.event") =>
          IF rcall.ans.ok
          THEN rcall.res = Ok(NoValue)
          ELSE /\ ~rcall.res.ok
               /\ rcall.res.err.msg = RefusalMessage(rcall.ans)

\* execute_task returned on a response with ok = false that carries a
\* result and no error: the call failed with "Unknown error"
C23_Witness ==
    /\ Delivered("worker.task")
    /\ ~rcall.ans.ok /\ rcall.ans.result = 0 /\ rcall.ans.error = NoWorkerError
    /\ ~rcall.res.ok /\ rcall.res.err.msg = "Unknown error"

\* a request other than a CORS preflight was served
ServedRequest == http # NoHttp /\ http.req.method # "OPTIONS"

\* C24: every HTTP response to a request under the base path carries the ok
\* flag, and every failure response carries the error envelope with a
\* numeric code and a codeName, also for a malformed body and a wrong method
C24_EveryResponseEnveloped ==
    ServedRequest =>
        /\ http.resp.envelope
        /\ http.resp.status # 200 =>
              /\ ~http.resp.ok
              /\ http.resp.code # 0
              /\ http.resp.codeName # ""

\* the code table of the protocol
CodeOf(variant) ==
    CASE variant = "Unauthorized" -> <<401, "UNAUTHORIZED">>
      [] variant = "Forbidden" -> <<403, "FORBIDDEN">>
      [] variant = "NotFound" -> <<404, "NOT_FOUND">>
      [] variant = "MethodNotAllowed" -> <<405, "METHOD_NOT_ALLOWED">>
      [] variant = "InvalidJson" -> <<400, "INVALID_JSON">>
      [] variant = "InternalError" -> <<500, "INTERNAL_ERROR">>

\* C25: each error kind maps to one fixed pair of code and codeName, the
\* HTTP status is the code of the envelope, the envelope has ok = false,
\* and InvalidJson and InternalError carry their detail as the message
C25_CodeTable ==
    Called("into_response") =>
        LET e == rcall.res.err
            r == rcall.resp
        IN /\ r.envelope /\ ~r.ok
           /\ <<r.code, r.codeName>> = CodeOf(e.variant)
           /\ r.status = r.code
           /\ e.variant \in {"InvalidJson", "InternalError"} => r.message = e.msg

\* an InvalidJson with its detail was converted: 400, INVALID_JSON, the
\* detail as the message
C25_Witness ==
    /\ Called("into_response")
    /\ rcall.res.err = InvalidJson("expected value at line 1 column 1")
    /\ rcall.resp.status = 400 /\ rcall.resp.code = 400
    /\ rcall.resp.codeName = "INVALID_JSON"
    /\ rcall.resp.message = "expected value at line 1 column 1"

\* C26: encoding a worker request or response envelope and decoding the
\* line yields a value equal to the original, for every request kind and
\* for payload and result values null, object, array and empty, a result
\* present and null and a result absent included
C26_RoundTrip ==
    rcall.codec.stage = "back" => rcall.codec.back = rcall.codec.orig

\* the requests, and the responses whose result is not a present null
C26_RoundTripButNull ==
    (rcall.codec.stage = "back" /\ rcall.codec.orig.result # "null") =>
        rcall.codec.back = rcall.codec.orig

\* the discovery endpoint answered
Discovered ==
    /\ http # NoHttp
    /\ http.req.route = "discovery"
    /\ http.resp.status = 200

\* C27: the allow-list the discovery endpoint returns is the one the
\* dispatch layer enforces: an id passes the check of the task or event
\* handlers exactly when the returned allow-list, with its enabled flag,
\* permits it
C27_DiscoveryIsEnforced ==
    Discovered =>
        LET al == http.resp.allowList
        IN \A id \in Ids :
              /\ AllowListPasses(config.allowed_tasks, id)
                    <=> Contains(al.enabled, al.tasks, id)
              /\ AllowListPasses(config.allowed_events, id)
                    <=> Contains(al.enabled, al.events, id)

\* C28: an OPTIONS request is never answered with Unauthorized, whatever
\* its token header, and never causes a task or event handler to run or an
\* envelope to be written to the worker
C28_OptionsBypassesAuth ==
    (http # NoHttp /\ http.req.method = "OPTIONS") =>
        /\ http.resp.status # 401
        /\ http.resp.codeName # "UNAUTHORIZED"
        /\ http.calls = <<>>
        /\ http.envelopes = <<>>

\* an OPTIONS request with a wrong token for a task that has a handler was
\* answered: not 401, and the handler did not run
C28_Witness ==
    /\ http # NoHttp /\ http.req.method = "OPTIONS"
    /\ http.req.route = "task" /\ http.req.token = "guess"
    /\ config.app = "local" /\ tasks[http.req.id] # NoHandler
    /\ http.resp.status = 200
    /\ http.calls = <<>>

\* the kind of the last whole record written to the worker's stdin: the
\* writer writes the requests of the callers and nothing else
LastRecordKind ==
    IF stdin.part = "nl" /\ \E c \in Callers : cid[c] = stdin.id
    THEN Kind(CHOOSE c \in Callers : cid[c] = stdin.id)
    ELSE "none"
\* the NodeWorker was dropped and the writer, finding its channel closed and
\* empty, has ended and closed the worker's stdin
GracefulTeardownDone == dropped /\ wpc = "stopped" /\ ~hist.writeFailed

\* C29: on graceful teardown of the worker channel a shutdown request is
\* written to the worker's stdin before the stream is closed
C29_ShutdownOnTeardown ==
    GracefulTeardownDone => LastRecordKind = "shutdown"

\* the write of caller c's request failed: the writer had taken it (its
\* sender is in the table) and stopped on a failed write before the record
\* was whole
WriteFailedFor(c) ==
    /\ hist.writeFailed
    /\ hist.inserts[c] > 0
    /\ cid[c] \notin hist.written

\* C30: if writing a request to the worker's stdin fails, the caller of that
\* request is not left waiting: its call eventually returns (the claim: with
\* InternalError) or it stops waiting, also when the worker keeps its
\* stdout open
C30_FailedWriteCompletesCaller ==
    \A c \in Callers :
        (WriteFailedFor(c) /\ cpc[c] = "waiting")
            ~> (cpc[c] = "abandoned" \/ cpc[c] = "done")

\* a byte of caller c's request has been written to the worker's stdin
SomeByteWritten(c) ==
    /\ cid[c] # 0
    /\ Written(cid[c]) \/ (stdin.len > 0 /\ stdin.id = cid[c])
\* while the reader runs, a request of which a byte was written has its
\* entry in the table unless the reader took it out for a response
C32_EntryFirst ==
    rpc = "running" =>
        \A c \in Callers :
            SomeByteWritten(c) =>
                (c \in Senders(pending_responses) \/ hist.removes[c] > 0)
\* the first response read for a written request finds its entry
C32_Step ==
    \A line \in NextLines :
        (ReaderLine(line) /\ IsResponse(line)) =>
            \A c \in Callers :
                (cid[c] = line.id /\ SomeByteWritten(c) /\ hist.removes[c] = 0) =>
                    /\ ~Unmatched(line)
                    /\ c \notin Senders(pending_responses')
                    /\ chan[c].st = "open" =>
                          chan'[c] = [st |-> "sent", val |-> line]

\* C32: the writer inserts the entry of a request before it writes its
\* first byte: when a response line is read, every request already written
\* has its entry in the table unless a response for it was consumed, so no
\* response is lost for having arrived before its entry
C32_InsertBeforeWrite == []C32_EntryFirst /\ [][C32_Step]_vars

\* the response of request 1 was delivered while only the json of request 2
\* is written, the entry of request 2 being in the table already
C32_Witness ==
    /\ chan[1].st = "sent" /\ cid[1] = 1 /\ Written(1)
    /\ stdin.id = 2 /\ stdin.part = "json" /\ cid[2] = 2
    /\ 2 \in Senders(pending_responses)
    /\ rpc = "running"

\* the writer starts to write a request in this step
StartsRecord == Writes /\ stdin'.part = "json"

\* C33 as stated: requests are written to the worker's stdin in strictly
\* increasing order of their correlation ids, for every interleaving of
\* the callers
C33_IncreasingIds ==
    [][StartsRecord => \A j \in hist.written : j < stdin'.id]_vars

C33_Fifo ==
    /\ \A c \in Callers :
          (Sends(c) /\ cpc'[c] = "waiting") =>
              queue' = Append(queue, [id |-> cid[c], tx |-> c])
    /\ (wpc = "recv" /\ wpc' = "json") =>
          (wcur' = Head(queue) /\ queue' = Tail(queue))
    /\ StartsRecord =>
          /\ stdin'.id = wcur.id
          /\ stdin'.id \notin hist.written

\* C33 as amended: requests are written in the order in which their
\* callers put them onto the writer's channel, each id once; that order
\* need not be the order of the ids, allocation and enqueueing being two
\* steps
C33_WrittenInQueueOrder == [][C33_Fifo]_vars

\* caller 2 allocated its id after caller 1 and enqueued before it: request
\* 2 is wholly written, request 1 is being written
C33_Witness ==
    /\ cid[1] = 1 /\ cid[2] = 2
    /\ Written(2) /\ ~Written(1)
    /\ stdin.id = 1 /\ stdin.part = "json"

\* caller c awaits its response and the table holds its sender
Outstanding(c) == cpc[c] = "waiting" /\ c \in Senders(pending_responses)

C34_Suspended ==
    \A c \in Callers :
        (Outstanding(c) /\ ~(wpc = "stopped" /\ rpc = "stopped")) =>
            (chan[c].st = "open" /\ ~ENABLED AwaitResponse(c))

C34_Release ==
    LET bothEnded == wpc' = "stopped" /\ rpc' = "stopped"
        ends == bothEnded /\ ~(wpc = "stopped" /\ rpc = "stopped")
    IN \A c \in Callers :
          /\ (Outstanding(c) /\ chan[c].st = "open") =>
                /\ ends => (chan'[c].st = "closed" /\ pending_responses' = {})
                /\ chan'[c].st = "closed" => ends
                /\ (cpc'[c] = "waiting" /\ chan'[c].st = "open" /\ ~bothEnded) =>
                      c \in Senders(pending_responses')
          /\ (cpc[c] = "waiting" /\ chan[c].st = "closed" /\ cpc'[c] = "done") =>
                cres'[c] = ErrResponseClosed

\* C34: a caller whose sender is still in the pending table is released,
\* with InternalError("Worker response channel closed"), exactly when the
\* second of the reader and writer threads ends; while one of them lives and
\* no response of its id is read it stays suspended
C34_ReleasedWhenBothEnd == []C34_Suspended /\ [][C34_Release]_vars

\* request 1 was written and never answered; the writer ended on a failed
\* write, the reader on the end of the stream, and caller 1 got the error
C34_Witness ==
    /\ wpc = "stopped" /\ rpc = "stopped"
    /\ hist.writeFailed
    /\ Written(cid[1]) /\ hist.removes[1] = 1
    /\ cres[1] = ErrResponseClosed

\* the writer's loop ended on a failed write
WriterBroke == wpc = "stopped" /\ hist.writeFailed

\* the writer never took the request of caller c off its channel
NeverTaken(c) == cpc[c] # "idle" /\ hist.inserts[c] = 0

C35_Refused ==
    WriterBroke =>
        \A c \in Callers :
            NeverTaken(c) =>
                /\ c \notin Senders(pending_responses)
                /\ ~Written(cid[c]) /\ stdin.id # cid[c]
                /\ cpc[c] = "alloc" => SendFails
                /\ cpc[c] = "waiting" =>
                      (chan[c].st = "closed" /\ ENABLED AwaitResponse(c))
                /\ cpc[c] = "done" =>
                      cres[c] \in {ErrChannelClosed, ErrResponseClosed}

C35_Quiet ==
    WriterBroke =>
        /\ stdin' = stdin
        /\ hist'.inserts = hist.inserts
        /\ hist'.written = hist.written
        /\ queue' = <<>>
        /\ Senders(pending_responses') \subseteq Senders(pending_responses)

\* C35: once the writer's loop has ended on a failed write, a request that
\* was queued and not yet taken, or that is issued afterwards, ends with an
\* InternalError, and is neither written nor put into the pending table
C35_AfterWriteFailure == []C35_Refused /\ [][C35_Quiet]_vars

\* the write of request 1 failed while request 2 was queued: caller 2 got
\* the error although the reader still runs
C35_Witness ==
    /\ WriterBroke /\ rpc = "running"
    /\ hist.inserts[1] = 1 /\ hist.inserts[2] = 0
    /\ cres[2] = ErrResponseClosed

\* the worker's response to the call was read, with ok = true
Acknowledged(ans) == ans.st = "resp" /\ ans.ok

C36_Call ==
    /\ rcall.ns = "worker.event" =>
          /\ rcall.res.ok <=> Acknowledged(rcall.ans)
          /\ ~rcall.res.ok => rcall.res.err.variant = "InternalError"
    \* a call suspended on the worker has returned nothing and answered
    \* nothing yet
    /\ flight # NoFlight => rcall = NoCall /\ http = NoHttp

C36_Http ==
    Serves =>
        \A auth \in AnswersFor(config, "auth"),
           ans \in AnswersFor(config, "call") :
            (HttpRequest(http'.req, auth, ans)
                /\ config.app = "ipc"
                /\ http'.req.route = "event" /\ http'.req.method = "POST") =>
                /\ http'.resp.ok <=>
                      /\ ReachesAllowList(http'.req, auth)
                      /\ AllowListPasses(config.allowed_events, http'.req.id)
                      /\ Acknowledged(ans)
                /\ http'.resp.ok =>
                      /\ http'.resp = SuccessResponse(NoValue)
                      /\ flight.of = "http" /\ flight.req = http'.req
                      /\ flight.stage = "call"
                      \* the response of the call is read only once the
                      \* writer has taken its request, the Auth record of
                      \* the same request wholly written before
                      /\ config.delegate_auth =>
                            /\ flight.auth
                            /\ Head(http'.envelopes) = "auth"
                      /\ ans.written <=>
                            /\ http'.envelopes # <<>>
                            /\ http'.envelopes[Len(http'.envelopes)] = "event"

\* C36: an event forwarded to the worker is awaited: emit_event returns
\* Ok, and the HTTP success envelope is produced, only after the worker's
\* response of the request's id was read with ok = true; ok = false or a
\* failure of the channel makes the event request fail
C36_EventAwaited == []C36_Call /\ [][C36_Http]_vars

\* an event request was forwarded, acknowledged by the worker, and answered
\* with the empty success envelope
C36_Witness ==
    /\ config.app = "ipc"
    /\ http.req.route = "event" /\ http.req.method = "POST"
    /\ http.envelopes # <<>> /\ http.envelopes[Len(http.envelopes)] = "event"
    /\ http.resp = SuccessResponse(NoValue)

\* the list of the request's kind is not empty and lacks its id
Restricted(req) == AllowedFor(req) # {} /\ req.id \notin AllowedFor(req)

C37_Gate ==
    Serves =>
        \A auth \in AnswersFor(config, "auth"),
           ans \in AnswersFor(config, "call") :
            (HttpRequest(http'.req, auth, ans)
                /\ ReachesAllowList(http'.req, auth)) =>
                (http'.resp = IntoResponse(Forbidden) <=> Restricted(http'.req))

\* C37: the task list and the event list gate independently, an empty list
\* restricting nothing: a task request that reaches the check fails with
\* Forbidden if and only if allowed_tasks is not empty and lacks its id, and
\* an event request if and only if allowed_events is not empty and lacks its
\* id, whatever the other list holds
C37_ListsGateIndependently == [][C37_Gate]_vars

\* the envelopes written while a request was served hold a Task or an Event
\* envelope
Forwarded(h) ==
    \E i \in 1..Len(h.envelopes) : h.envelopes[i] \in {"task", "event"}
\* the Auth envelope is the only one that can have been written
OnlyAuthAsked(h, auth) == h.envelopes = Envelope("auth", auth)

\* the steps of an IPC request in their order, each with the answer its
\* failure gives and the steps it leaves out
C38_Order(h, auth, ans) ==
    LET req == h.req
        checked == DelegatedAuth(config, auth)
    IN IF ~ValidateAuth(req.token, config).ok
       THEN h.resp = IntoResponse(Unauthorized) /\ h.envelopes = <<>>
       ELSE IF config.delegate_auth /\ ~WorkerAuthenticate(auth).ok
       THEN /\ h.resp = IntoResponse(WorkerAuthenticate(auth).err)
            /\ (auth.st = "resp" => h.resp = IntoResponse(Unauthorized))
            /\ OnlyAuthAsked(h, auth)
       ELSE IF BodyRejected(config, req.body)
       THEN /\ h.resp.status = 400 /\ h.resp.codeName = "INVALID_JSON"
            /\ h.envelopes = checked.envelopes
       ELSE IF Restricted(req)
       THEN /\ h.resp = IntoResponse(Forbidden)
            /\ h.envelopes = checked.envelopes
       ELSE /\ h.envelopes =
                  checked.envelopes \o Envelope(req.route, ans)
            /\ Forwarded(h) <=> ans.written
            \* the call is answered by a response, or has its envelope
            \* written, only after the Auth envelope of the request
            /\ (config.delegate_auth /\ (ans.st = "resp" \/ ans.written)) =>
                  checked.envelopes = <<"auth">>

C38_Step ==
    Serves =>
        \A auth \in AnswersFor(config, "auth"),
           ans \in AnswersFor(config, "call") :
            (HttpRequest(http'.req, auth, ans)
                /\ config.app = "ipc"
                /\ http'.req.route \in {"task", "event"}
                /\ http'.req.method = "POST") =>
                /\ C38_Order(http', auth, ans)
                /\ Forwarded(http') =>
                      /\ ReachesAllowList(http'.req, auth)
                      /\ ~Restricted(http'.req)

\* C38: in worker mode a Task or Event envelope is written only for a
\* request that passed, in this order, the token check, the worker's own
\* authentication when it is delegated, the parsing of the body and the
\* allow-list check; the first step that fails ends the request with its
\* error (Unauthorized, InvalidJson, Forbidden) and no later step is taken
C38_IpcStepsInOrder == [][C38_Step]_vars

\* a delegated request went through the four steps: the Auth envelope, then
\* the Task envelope were written, the task list holding its id
C38_Witness ==
    /\ config.app = "ipc" /\ config.delegate_auth
    /\ config.allowed_tasks = {"a"}
    /\ http.req.route = "task" /\ http.req.id = "a"
    /\ http.envelopes = <<"auth", "task">>
    /\ http.resp.ok

\* caller t made an execute_task call that returned
Executed(t) == tk[t].op = "execute" /\ tk[t].pc = "done"

\* C31: registrations may run concurrently with lookups: an execute_task
\* call either returns NotFound or runs one handler that a registration
\* stored under its id before it returned; it never runs a handler of
\* another id and never reads a map that an insert is rewriting
C31_LookupsSeeWholeMap ==
    /\ \A t \in Tasks :
          Executed(t) =>
              \/ tk[t].res = "NotFound" /\ tk[t].found = NoHandler
              \/ /\ tk[t].res = "ran"
                 /\ tk[t].found \in rhist.everReg[tk[t].id]
    /\ \A t \in Tasks :
          tk[t].pc = "lookup" => rmap[tk[t].id] # Torn
    /\ \A t \in Tasks :
          tk[t].found # NoHandler => tk[t].found \in rhist.everReg[tk[t].id]

\* caller 2 ran the handler that caller 1 stored under a while caller 3,
\* whose registration under a was issued during that run, replaced it
C31_Witness ==
    /\ tk[1].op = "register" /\ tk[1].id = "a" /\ tk[1].h.fn = "inc"
    /\ Executed(2) /\ tk[2].id = "a"
    /\ tk[2].res = "ran" /\ tk[2].found.fn = "inc"
    /\ tk[3].op = "register" /\ tk[3].id = "a"
    /\ 2 \in rhist.before[3]
    /\ rmap["a"] = Registering

\* the registration issued by t has the write guard, or has completed
RegistrationIn(t) ==
    \/ tk[t].pc \in {"insert", "inserting", "returning"}
    \/ tk[t].op = "register" /\ tk[t].pc = "done"

\* C39: execute_task holds the read guard for the whole call of the
\* handler, so a registration issued while handlers run gets through only
\* after each of them returned, and a handler that registers on the registry
\* that runs it never returns
C39_RegistrationWaitsForHandlers ==
    /\ \A t \in Tasks :
          (tk[t].found # NoHandler /\ tk[t].pc # "done") => t \in rw.readers
    /\ \A w \in Tasks :
          RegistrationIn(w) => \A r \in rhist.before[w] : tk[r].pc = "done"
    /\ \A t \in Tasks :
          tk[t].nested => (tk[t].pc = "acquire" /\ t \in rhist.before[t])

\* the registration of caller 3 was issued while the handler of caller 2
\* ran, and has completed, after that handler returned
C39_Witness ==
    /\ tk[3].op = "register" /\ tk[3].pc = "done"
    /\ rhist.before[3] = {2}
    /\ tk[2].res = "ran"
    /\ rmap[tk[3].id] = tk[3].h

\* a handler registered on its own registry: it waits for the write guard
\* while its caller holds the read guard
C39_WitnessNested ==
    /\ tk[2].nested /\ tk[2].pc = "acquire"
    /\ 2 \in rw.readers
    /\ rw.waiters # <<>> /\ Head(rw.waiters) = [t |-> 2, mode |-> "write"]

\* a registration was called, and its thread waits for the write guard,
\* while request r of the same namespace waits for its JavaScript handler
RegisteringDuring(r) ==
    /\ js.reg = "acquire"
    /\ nreq[r].pc = "called" /\ nreq[r].ns = js.ns

\* C40: registerTask and registerEvent always return: a registration called
\* from the JavaScript thread while a request of the same namespace waits
\* for its JavaScript handler eventually completes, and that request
\* eventually gets its response
C40_RegisterReturns ==
    \A r \in HttpRequests :
        /\ RegisteringDuring(r) ~> (js.pc # "join")
        /\ RegisteringDuring(r) ~> (nreq[r].pc = "done")

====
